---- MODULE Spec2Model ----
(***************************************************************************)
(* json_to_sql: a JSON document is decomposed into entities and            *)
(* relationships (JsonStructureAnalyzer), the entities are resolved into   *)
(* tables with sequential ids and the relationships into junction tables   *)
(* (TableBuilder), all-null columns are pruned (optimize_tables) and the   *)
(* persistence order is computed (SqlServerTableCreator).                  *)
(*                                                                         *)
(* The repository holds the pipeline twice: the package modules            *)
(* (JsonToSQL/core/analyzer.py, core/table_builder.py) and the single-file *)
(* json_to_sql.py.  The variable impl says which copy a run executes.      *)
(***************************************************************************)
EXTENDS Integers, Sequences, FiniteSets, TLC

VARIABLES
    impl,             \* "core": the package modules; "legacy": json_to_sql.py
    json_data,        \* the parsed JSON document handed to normalize_json_to_nf
    pc,               \* position in normalize_json_to_nf / build_tables
    entities,         \* JsonStructureAnalyzer.entities, TableBuilder.entities
    relationships,    \* JsonStructureAnalyzer.relationships (a dict: name -> records)
    rel_order,        \* insertion order of the keys of relationships
    entity_hierarchy, \* JsonStructureAnalyzer.entity_hierarchy, in insertion order
    next_temp_id,     \* JsonStructureAnalyzer.next_temp_id
    analysed,         \* the entities as analyze left them (build_tables pops temp_id)
    leaf_entities,    \* build_tables: the frontier set
    processed_entities, \* build_tables: the entities already resolved
    remaining_entities, \* build_tables: the entities left after the frontier loop
    tables,           \* TableBuilder.tables, then the optimized tables
    table_order,      \* insertion order of the keys of tables
    id_maps,          \* TableBuilder.id_maps
    processing_order, \* result of _determine_processing_order
    input_tables,     \* the argument of the last optimize_tables call
    mode,             \* SqlServerTableCreator.collect_script: "script", "live"; "none": no writer
    statements,       \* the statements handed to cursor.execute, in order (sql_script)
    writer_id_maps,   \* SqlServerTableCreator.id_maps
    pending,          \* the tables the current loop of the writer has still to visit
    insert,           \* _insert_entity_data: the locals of the loop over the rows
    store,            \* the tables of the database, uncommitted work included
    committed         \* the tables of the database as of the last commit

\* the variables of the writer
persist_vars == <<mode, statements, writer_id_maps, pending, insert, store, committed>>

vars == <<impl, json_data, pc, entities, relationships, rel_order, entity_hierarchy,
          next_temp_id, analysed, leaf_entities, processed_entities,
          remaining_entities, tables, table_order, id_maps, processing_order,
          input_tables, mode, statements, writer_id_maps, pending, insert, store,
          committed>>

(***************************************************************************)
(* Bounds of the model.                                                    *)
(***************************************************************************)
MaxNodes == 3      \* JSON values (objects, arrays, scalars) in a generated document
MaxItems == 2      \* items of a generated array
MaxFields == 2     \* fields of a generated object
MaxRows == 2       \* rows of a table handed to optimize_tables on its own
MaxTables == 3     \* tables handed to _determine_processing_order on its own

(***************************************************************************)
(* Python values.  Every value is a record of one shape, so that values    *)
(* of different Python types can be compared: t is the type, n the number  *)
(* of an int or bool, s the text of a str, kids the fields of a dict (k, v)*)
(* or the items of a list (v).                                             *)
(***************************************************************************)
PyInt(i) == [t |-> "int", n |-> i, s |-> "", kids |-> <<>>]
PyBool(b) == [t |-> "bool", n |-> IF b THEN 1 ELSE 0, s |-> "", kids |-> <<>>]
PyNone == [t |-> "null", n |-> 0, s |-> "", kids |-> <<>>]
PyStr(x) == [t |-> "str", n |-> 0, s |-> x, kids |-> <<>>]
\* a float and a datetime.datetime, each with the text str() gives it
PyFloat(x) == [t |-> "float", n |-> 0, s |-> x, kids |-> <<>>]
PyDateTime(x) == [t |-> "datetime", n |-> 0, s |-> x, kids |-> <<>>]
PyDict(fields) == [t |-> "dict", n |-> 0, s |-> "", kids |-> fields]
PyList(items) == [t |-> "list", n |-> 0, s |-> "",
                  kids |-> [i \in 1..Len(items) |-> [k |-> "", v |-> items[i]]]]
PyTuple(i, x) == [t |-> "tuple", n |-> i, s |-> "", kids |-> <<[k |-> "", v |-> x]>>]
Field(key, value) == [k |-> key, v |-> value]

\* isinstance(value, (str, int, float, bool)) or value is None
IsPrimitive(value) == value.t \in {"int", "bool", "null", "str"}

\* Python's ==, as dict keys and `in` use it: True == 1 and False == 0.
PyEq(a, b) ==
    \/ a = b
    \/ a.t \in {"int", "bool"} /\ b.t \in {"int", "bool"} /\ a.n = b.n

(***************************************************************************)
(* The documents of the model: every JSON value of at most MaxNodes nodes  *)
(* over Keys and Scalars, and the scenarios of the specification.          *)
(***************************************************************************)
RootName == "root"
Keys == {"a", "id", "temp_id", "root", "root_a"}
Scalars == {PyInt(1), PyInt(2), PyBool(TRUE), PyBool(FALSE), PyNone, PyStr("")}

Min(a, b) == IF a < b THEN a ELSE b

RECURSIVE JsonOfSize(_), SeqsOfSize(_, _)
\* the sequences of len JSON values that have n nodes together
SeqsOfSize(n, len) ==
    IF len = 0 THEN (IF n = 0 THEN {<<>>} ELSE {})
    ELSE UNION { { <<v>> \o rest : v \in JsonOfSize(i), rest \in SeqsOfSize(n - i, len - 1) } :
                 i \in 1..(n - (len - 1)) }

KeySeqs(len) == { ks \in [1..len -> Keys] : \A i, j \in 1..len : i # j => ks[i] # ks[j] }

\* the JSON values of exactly n nodes
JsonOfSize(n) ==
    (IF n = 1 THEN Scalars ELSE {})
    \cup UNION { { PyList(items) : items \in SeqsOfSize(n - 1, len) } :
                 len \in 0..Min(MaxItems, n - 1) }
    \cup UNION { { PyDict([i \in 1..len |-> Field(ks[i], vals[i])]) :
                   ks \in KeySeqs(len), vals \in SeqsOfSize(n - 1, len) } :
                 len \in 0..Min(MaxFields, n - 1) }

ScenarioA == PyDict(<<Field("a", PyInt(1)), Field("b", PyDict(<<Field("c", PyInt(2))>>))>>)
ScenarioB == PyDict(<<Field("items", PyList(<<PyInt(1), PyInt(2), PyInt(3)>>))>>)

\* documents larger than MaxNodes that nest deeper or reuse names
\* {"a": [{"b": {}}, {"b": {}}]}: a nested object field that occurs twice
NestedTwice ==
    PyDict(<<Field("a", PyList(<<PyDict(<<Field("b", PyDict(<<>>))>>),
                                 PyDict(<<Field("b", PyDict(<<>>))>>)>>))>>)
\* {"a": [1], "b": {"a": [2]}}: one array name under two parents
SharedArray ==
    PyDict(<<Field("a", PyList(<<PyInt(1)>>)),
             Field("b", PyDict(<<Field("a", PyList(<<PyInt(2)>>))>>))>>)
\* {"a": {}, "root_a": [1]}: an array named like a nested object's entity
NameClash == PyDict(<<Field("a", PyDict(<<>>)), Field("root_a", PyList(<<PyInt(1)>>))>>)
\* {"a": [{"temp_id": 2}, {"temp_id": 1}]}: fields named temp_id
TempIdFields ==
    PyDict(<<Field("a", PyList(<<PyDict(<<Field("temp_id", PyInt(2))>>),
                                 PyDict(<<Field("temp_id", PyInt(1))>>)>>))>>)
\* {"a": {"b": {"c": 1}}}: a chain of nested objects
Chain == PyDict(<<Field("a", PyDict(<<Field("b", PyDict(<<Field("c", PyInt(1))>>))>>))>>)
\* [{"a": 1}, {"b": 2}]: root records with different fields
MixedRows == PyList(<<PyDict(<<Field("a", PyInt(1))>>), PyDict(<<Field("b", PyInt(2))>>)>>)

ScenarioDocuments ==
    {ScenarioA, ScenarioB, NestedTwice, SharedArray, NameClash, TempIdFields, Chain, MixedRows}

(***************************************************************************)
(* Python dicts.  A dict whose order of keys is never read is a function   *)
(* from its keys; entity_hierarchy and the id maps, whose keys are Python  *)
(* values or whose order is read, are sequences of (key, value) pairs.     *)
(***************************************************************************)
EmptyDict == [x \in {} |-> 0]

\* d[key] = value
DictSet(d, key, value) == (key :> value) @@ d

\* self.entity_hierarchy[child] = parent: a new key is appended, a known one keeps its place
HierarchySet(h, child, parent) ==
    IF \E i \in 1..Len(h) : h[i].child = child
    THEN [i \in 1..Len(h) |-> IF h[i].child = child THEN [child |-> child, parent |-> parent] ELSE h[i]]
    ELSE Append(h, [child |-> child, parent |-> parent])

(***************************************************************************)
(* JsonStructureAnalyzer.  st is the analyzer object: entities,            *)
(* relationships (with rel_order, the order of its keys), entity_hierarchy *)
(* and next_temp_id.                                                       *)
(***************************************************************************)
NewAnalyzer ==
    [entities |-> EmptyDict, relationships |-> EmptyDict, rel_order |-> <<>>,
     entity_hierarchy |-> <<>>, next_temp_id |-> EmptyDict]

\* InitEntity without its membership test: a known entity is emptied again
InitEntityAlways(st, entity_name) ==
    [st EXCEPT !.entities = DictSet(@, entity_name, <<>>),
               !.next_temp_id = DictSet(@, entity_name, 1)]

InitEntity(st, entity_name) ==
    IF entity_name \in DOMAIN st.entities THEN st
    ELSE [st EXCEPT !.entities = DictSet(@, entity_name, <<>>),
                    !.next_temp_id = DictSet(@, entity_name, 1)]

InitRelationship(st, rel_name, parent_entity, child_entity) ==
    IF rel_name \in DOMAIN st.relationships THEN st
    ELSE [st EXCEPT !.relationships = DictSet(@, rel_name, <<>>),
                    !.rel_order = Append(@, rel_name),
                    !.entity_hierarchy = HierarchySet(@, child_entity, parent_entity)]

\* returns the temp_id and the analyzer with the counter bumped
GetNextTempId(st, entity_name) ==
    [temp_id |-> st.next_temp_id[entity_name],
     st |-> [st EXCEPT !.next_temp_id[entity_name] = @ + 1]]

\* {f"{parent_entity}_temp_id": parent_temp_id, f"{entity_name}_temp_id": temp_id}:
\* a dict display, where the later of two equal keys wins
RelRecord(parent_entity, parent_temp_id, entity_name, temp_id) ==
    DictSet(DictSet(EmptyDict, parent_entity \o "_temp_id", PyInt(parent_temp_id)),
            entity_name \o "_temp_id", PyInt(temp_id))

\* the items the array loop of _process_field visits: `for item in value` in
\* analyzer.py, `for item in enumerate(value)` in json_to_sql.py
ArrayLoopItems(value) ==
    IF impl = "legacy"
    THEN [i \in 1..Len(value.kids) |-> PyTuple(i - 1, value.kids[i].v)]
    ELSE [i \in 1..Len(value.kids) |-> value.kids[i].v]

RECURSIVE ProcessField(_, _, _, _, _), ProcessDictFields(_, _, _, _, _),
          ProcessListItems(_, _, _, _, _, _)

\* for key, value in d.items(): self._process_field(key, value, entity_name, temp_id);
\* a primitive value is stored in record.  Returns the analyzer and the record.
ProcessDictFields(st, fields, entity_name, temp_id, record) ==
    IF fields = <<>> THEN [st |-> st, record |-> record]
    ELSE LET f == Head(fields)
             st1 == ProcessField(st, f.k, f.v, entity_name, temp_id)
             record1 == IF IsPrimitive(f.v) THEN DictSet(record, f.k, f.v) ELSE record
         IN ProcessDictFields(st1, Tail(fields), entity_name, temp_id, record1)

\* the loop over the items of an array field
ProcessListItems(st, items, parent_entity, parent_temp_id, entity_name, rel_name) ==
    IF items = <<>> THEN st
    ELSE LET item == Head(items)
             g == GetNextTempId(st, entity_name)
             r == ProcessDictFields(g.st, item.kids, entity_name, g.temp_id,
                                    DictSet(EmptyDict, "temp_id", PyInt(g.temp_id)))
             rel == RelRecord(parent_entity, parent_temp_id, entity_name, g.temp_id)
             st1 ==
                 IF item.t = "dict"
                 THEN [r.st EXCEPT !.entities[entity_name] = Append(@, r.record),
                                   !.relationships[rel_name] = Append(@, rel)]
                 ELSE IF IsPrimitive(item)
                 THEN [g.st EXCEPT !.entities[entity_name] =
                                       Append(@, DictSet(DictSet(EmptyDict, "temp_id", PyInt(g.temp_id)),
                                                         "value", item)),
                                   !.relationships[rel_name] = Append(@, rel)]
                 ELSE st
         IN ProcessListItems(st1, Tail(items), parent_entity, parent_temp_id, entity_name, rel_name)

ProcessField(st, key, value, parent_entity, parent_temp_id) ==
    IF value.t = "dict"
    THEN LET entity_name == parent_entity \o "_" \o key
             rel_name == parent_entity \o "_" \o entity_name \o "_rel"
             st1 == InitRelationship(InitEntity(st, entity_name), rel_name, parent_entity, entity_name)
             g == GetNextTempId(st1, entity_name)
             r == ProcessDictFields(g.st, value.kids, entity_name, g.temp_id,
                                    DictSet(EmptyDict, "temp_id", PyInt(g.temp_id)))
         IN [r.st EXCEPT !.entities[entity_name] = Append(@, r.record),
                         !.relationships[rel_name] =
                             Append(@, RelRecord(parent_entity, parent_temp_id, entity_name, g.temp_id))]
    ELSE IF value.t = "list"
    THEN LET entity_name == key
             rel_name == parent_entity \o "_" \o entity_name \o "_rel"
             st1 == InitRelationship(InitEntity(st, entity_name), rel_name, parent_entity, entity_name)
         IN ProcessListItems(st1, ArrayLoopItems(value), parent_entity, parent_temp_id,
                             entity_name, rel_name)
    ELSE st

RECURSIVE AnalyzeRootItemsDictsOnly(_, _, _)
\* AnalyzeRootItems without the branch for primitive items
AnalyzeRootItemsDictsOnly(st, items, root_name) ==
    IF items = <<>> THEN st
    ELSE LET item == Head(items).v
             g == GetNextTempId(st, root_name)
             r == ProcessDictFields(g.st, item.kids, root_name, g.temp_id,
                                    DictSet(EmptyDict, "temp_id", PyInt(g.temp_id)))
             st1 ==
                 IF item.t = "dict"
                 THEN [r.st EXCEPT !.entities[root_name] = Append(@, r.record)]
                 ELSE st
         IN AnalyzeRootItemsDictsOnly(st1, Tail(items), root_name)

RECURSIVE AnalyzeRootItems(_, _, _)
\* analyze, the loop over the items of a root array
AnalyzeRootItems(st, items, root_name) ==
    IF items = <<>> THEN st
    ELSE LET item == Head(items).v
             g == GetNextTempId(st, root_name)
             r == ProcessDictFields(g.st, item.kids, root_name, g.temp_id,
                                    DictSet(EmptyDict, "temp_id", PyInt(g.temp_id)))
             st1 ==
                 IF item.t = "dict"
                 THEN [r.st EXCEPT !.entities[root_name] = Append(@, r.record)]
                 ELSE IF IsPrimitive(item)
                 THEN [g.st EXCEPT !.entities[root_name] =
                                       Append(@, DictSet(DictSet(EmptyDict, "temp_id", PyInt(g.temp_id)),
                                                         "value", item))]
                 ELSE st
         IN AnalyzeRootItems(st1, Tail(items), root_name)

\* JsonStructureAnalyzer(root_name).analyze(data): the analyzer afterwards
AnalyzeJson(data, root_name) ==
    IF data.t = "dict"
    THEN LET g == GetNextTempId(InitEntity(NewAnalyzer, root_name), root_name)
             r == ProcessDictFields(g.st, data.kids, root_name, g.temp_id,
                                    DictSet(EmptyDict, "temp_id", PyInt(g.temp_id)))
         IN [r.st EXCEPT !.entities[root_name] = Append(@, r.record)]
    ELSE IF data.t = "list"
    THEN AnalyzeRootItems(InitEntity(NewAnalyzer, root_name), data.kids, root_name)
    ELSE NewAnalyzer

(***************************************************************************)
(* Python str methods on the names.                                        *)
(***************************************************************************)
\* s.endswith(suffix)
EndsWith(s, suffix) ==
    Len(s) >= Len(suffix) /\ SubSeq(s, Len(s) - Len(suffix) + 1, Len(s)) = suffix

\* s.startswith(prefix)
StartsWith(s, prefix) ==
    Len(s) >= Len(prefix) /\ SubSeq(s, 1, Len(prefix)) = prefix

\* s.rsplit(sep, 1)[0]: the text before the last occurrence of sep, s when there is none
RSplitFirst(s, sep) ==
    LET at == { i \in 1..Len(s) : i + Len(sep) - 1 <= Len(s) /\ SubSeq(s, i, i + Len(sep) - 1) = sep }
    IN IF at = {} THEN s
       ELSE SubSeq(s, 1, (CHOOSE i \in at : \A j \in at : j <= i) - 1)

(***************************************************************************)
(* TableBuilder.                                                           *)
(***************************************************************************)
\* the keys of the relationship records stored under the names in rel_names
RelationshipKeys(rels, rel_names) ==
    UNION { UNION { DOMAIN rels[r][i] : i \in 1..Len(rels[r]) } : r \in rel_names }

\* the names _find_leaf_entities collects into parents: every name that stands
\* before _temp_id in a key of a relationship record
RelationshipKeyEntities(rels) ==
    { RSplitFirst(key, "_temp_id") :
        key \in { k \in RelationshipKeys(rels, DOMAIN rels) : EndsWith(k, "_temp_id") } }

FindLeafEntities(ents, rels) == DOMAIN ents \ RelationshipKeyEntities(rels)

FindChildEntities(rels, parent_entity) ==
    LET involved == { r \in DOMAIN rels :
                        /\ rels[r] # <<>>
                        /\ (parent_entity \o "_temp_id") \in DOMAIN rels[r][1] }
    IN { RSplitFirst(key, "_temp_id") :
           key \in { k \in RelationshipKeys(rels, involved) :
                        EndsWith(k, "_temp_id") /\ ~StartsWith(k, parent_entity) } }

\* the frontier after _update_leaf_entities(leaf, processed)
UpdateLeafEntities(ents, rels, leaf, processed) ==
    leaf \cup { e \in DOMAIN ents \ processed :
                  \A child \in FindChildEntities(rels, e) : child \in processed }

\* ConvertValue that keeps the empty string
ConvertValueKeepsEmptyString(value) ==
    IF value = PyBool(TRUE) THEN PyInt(1)
    ELSE IF value = PyBool(FALSE) THEN PyInt(0)
    ELSE IF PyEq(value, PyNone) THEN PyNone
    ELSE value

\* the conversion of one field value in _process_entity
ConvertValue(value) ==
    IF value = PyBool(TRUE) THEN PyInt(1)
    ELSE IF value = PyBool(FALSE) THEN PyInt(0)
    ELSE IF PyEq(value, PyNone) \/ PyEq(value, PyStr("")) THEN PyNone
    ELSE value

\* id_map[temp_id] = real_id, id_map a Python dict keyed by Python values
IdMapSet(id_map, temp_id, real_id) ==
    IF \E i \in 1..Len(id_map) : PyEq(id_map[i].k, temp_id)
    THEN [i \in 1..Len(id_map) |->
             IF PyEq(id_map[i].k, temp_id) THEN [k |-> id_map[i].k, v |-> real_id] ELSE id_map[i]]
    ELSE Append(id_map, [k |-> temp_id, v |-> real_id])

\* temp_id in id_map
IdMapHas(id_map, temp_id) == \E i \in 1..Len(id_map) : PyEq(id_map[i].k, temp_id)

\* id_map[temp_id]
IdMapGet(id_map, temp_id) ==
    id_map[CHOOSE i \in 1..Len(id_map) : PyEq(id_map[i].k, temp_id)].v

\* record without its key temp_id, as record.pop('temp_id') leaves it
PopTempId(record) == [k \in DOMAIN record \ {"temp_id"} |-> record[k]]

\* TableRecord with ids counted from 0 (enumerate without start=1)
TableRecordFromZero(record, real_id) ==
    LET rest == [k \in DOMAIN record \ {"temp_id"} |-> record[k]]
    IN [k \in {"id"} \cup DOMAIN rest |->
           IF k \in DOMAIN rest THEN ConvertValue(rest[k]) ELSE PyInt(real_id - 1)]

\* the table record _process_entity builds for the record that takes real_id
TableRecord(record, real_id) ==
    LET rest == PopTempId(record)
    IN [k \in {"id"} \cup DOMAIN rest |->
           IF k \in DOMAIN rest THEN ConvertValue(rest[k]) ELSE PyInt(real_id)]

RECURSIVE BuildIdMap(_, _, _)
\* the id_map of _process_entity after the records from position real_id on
BuildIdMap(records, real_id, id_map) ==
    IF real_id > Len(records) THEN id_map
    ELSE BuildIdMap(records, real_id + 1, IdMapSet(id_map, records[real_id]["temp_id"], real_id))

\* _process_entity: the table, the id map and the records left in self.entities
ProcessEntity(records) ==
    [table |-> [i \in 1..Len(records) |-> TableRecord(records[i], i)],
     id_map |-> BuildIdMap(records, 1, <<>>),
     records |-> [i \in 1..Len(records) |-> PopTempId(records[i])]]

\* the _temp_id keys of a relationship record
TempIdKeys(rel) == { k \in DOMAIN rel : EndsWith(k, "_temp_id") }

\* self.id_maps[entity_name][temp_id] raises KeyError
RelRecordFails(rel, maps) ==
    \E k \in TempIdKeys(rel) :
        \/ RSplitFirst(k, "_temp_id") \notin DOMAIN maps
        \/ ~IdMapHas(maps[RSplitFirst(k, "_temp_id")], rel[k])

\* the junction row of one relationship record
JunctionRecord(rel, maps) ==
    [c \in { RSplitFirst(k, "_temp_id") \o "_id" : k \in TempIdKeys(rel) } |->
        LET k == CHOOSE x \in TempIdKeys(rel) : RSplitFirst(x, "_temp_id") \o "_id" = c
        IN PyInt(IdMapGet(maps[RSplitFirst(k, "_temp_id")], rel[k]))]

RECURSIVE ProcessRelationshipsFrom(_, _, _, _, _, _)
\* _process_relationships from the i-th relationship on: the tables and whether
\* a lookup raised KeyError
ProcessRelationshipsFrom(i, order, rels, maps, tbls, tord) ==
    IF i > Len(order) THEN [tables |-> tbls, table_order |-> tord, error |-> FALSE]
    ELSE LET rel_name == order[i]
             rel_data == rels[rel_name]
         IN IF rel_data = <<>>
            THEN ProcessRelationshipsFrom(i + 1, order, rels, maps, tbls, tord)
            ELSE IF \E j \in 1..Len(rel_data) : RelRecordFails(rel_data[j], maps)
            THEN [tables |-> tbls, table_order |-> tord, error |-> TRUE]
            ELSE ProcessRelationshipsFrom(i + 1, order, rels, maps,
                     DictSet(tbls, rel_name,
                             [j \in 1..Len(rel_data) |-> JunctionRecord(rel_data[j], maps)]),
                     IF rel_name \in DOMAIN tbls THEN tord ELSE Append(tord, rel_name))

\* the columns optimize_tables looks at: those of all rows in table_builder.py,
\* those of the first row in json_to_sql.py
AllColumns(rows, which) ==
    IF which = "legacy" THEN DOMAIN rows[1]
    ELSE UNION { DOMAIN rows[i] : i \in 1..Len(rows) }

\* row.get(col)
RowGet(row, col) == IF col \in DOMAIN row THEN row[col] ELSE PyNone

\* NonNullCols with a row that lacks the column counted as non-null (row.get(col, 0))
NonNullColsMissingCounts(rows, which) ==
    { col \in AllColumns(rows, which) :
        \E i \in 1..Len(rows) : col \notin DOMAIN rows[i] \/ rows[i][col] # PyNone }

NonNullCols(rows, which) ==
    { col \in AllColumns(rows, which) : \E i \in 1..Len(rows) : RowGet(rows[i], col) # PyNone }

\* optimize_tables on one table with rows
OptimizeRows(rows, which) ==
    [i \in 1..Len(rows) |-> [col \in NonNullCols(rows, which) |-> RowGet(rows[i], col)]]

\* optimize_tables: the optimized dict
OptimizeTables(tbls, which) ==
    [name \in { x \in DOMAIN tbls : tbls[x] # <<>> } |-> OptimizeRows(tbls[name], which)]

\* the keys of optimize_tables' result, in order
RECURSIVE FilterSeq(_, _)
FilterSeq(seq, keep) ==
    IF seq = <<>> THEN <<>>
    ELSE (IF Head(seq) \in keep THEN <<Head(seq)>> ELSE <<>>) \o FilterSeq(Tail(seq), keep)

(***************************************************************************)
(* SqlServerTableCreator._determine_processing_order.                      *)
(***************************************************************************)
RECURSIVE EntityTables(_)
\* [name for name in table_names if not name.endswith('_rel')]
EntityTables(table_names) ==
    IF table_names = <<>> THEN <<>>
    ELSE (IF EndsWith(Head(table_names), "_rel") THEN <<>> ELSE <<Head(table_names)>>)
         \o EntityTables(Tail(table_names))

SeqToSet(seq) == { seq[i] : i \in 1..Len(seq) }

RECURSIVE BuildGraph(_, _, _)
\* the graph after the hierarchy entries from position i on: graph[parent].append(child)
BuildGraph(hierarchy, i, graph) ==
    IF i > Len(hierarchy) THEN graph
    ELSE LET child == hierarchy[i].child
             parent == hierarchy[i].parent
         IN BuildGraph(hierarchy, i + 1,
                IF child \in DOMAIN graph /\ parent \in DOMAIN graph
                THEN [graph EXCEPT ![parent] = Append(@, child)]
                ELSE graph)

RECURSIVE Visit(_, _, _), VisitEach(_, _, _, _)
\* Visit without the test `if node in visited`
VisitAgain(node, graph, d) ==
    IF node \in d.temp THEN d
    ELSE LET d1 == VisitEach(graph[node], 1, graph, [d EXCEPT !.temp = @ \cup {node}])
         IN [visited |-> d1.visited \cup {node},
             temp |-> d1.temp \ {node},
             order |-> Append(d1.order, node)]

\* visit(node); d holds visited, temp and order
Visit(node, graph, d) ==
    IF node \in d.visited THEN d
    ELSE IF node \in d.temp THEN d
    ELSE LET d1 == VisitEach(graph[node], 1, graph, [d EXCEPT !.temp = @ \cup {node}])
         IN [visited |-> d1.visited \cup {node},
             temp |-> d1.temp \ {node},
             order |-> Append(d1.order, node)]

\* for child in nodes[i:]: visit(child)
VisitEach(nodes, i, graph, d) ==
    IF i > Len(nodes) THEN d
    ELSE VisitEach(nodes, i + 1, graph, Visit(nodes[i], graph, d))

Reverse(seq) == [i \in 1..Len(seq) |-> seq[Len(seq) + 1 - i]]

\* the order list before it is returned
TopologicalOrder(table_names, hierarchy) ==
    LET entity_tables == EntityTables(table_names)
        graph == BuildGraph(hierarchy, 1, [e \in SeqToSet(entity_tables) |-> <<>>])
    IN VisitEach(entity_tables, 1, graph, [visited |-> {}, temp |-> {}, order |-> <<>>]).order

\* return list(reversed(order))
DetermineProcessingOrder(table_names, hierarchy) ==
    Reverse(TopologicalOrder(table_names, hierarchy))

(***************************************************************************)
(* SqlServerTableCreator: names, types and literals.                       *)
(***************************************************************************)
\* the characters _make_sql_safe replaces by an underscore
SpecialChars ==
    {"`", "~", "!", "@", "#", "$", "%", "^", "&", "*", "(", ")", "+", "=", "{", "}",
     "[", "]", "|", "\\", ":", ";", "\"", "'", "<", ">", ",", ".", "?", "/", " "}

Digits == {"0", "1", "2", "3", "4", "5", "6", "7", "8", "9"}

RECURSIVE Translate(_)
\* str(name).translate(trans)
Translate(s) ==
    IF s = "" THEN ""
    ELSE (IF SubSeq(s, 1, 1) \in SpecialChars THEN "_" ELSE SubSeq(s, 1, 1))
         \o Translate(SubSeq(s, 2, Len(s)))

RECURSIVE CollapseUnderscores(_)
\* re.sub('_+', '_', safe_name)
CollapseUnderscores(s) ==
    IF Len(s) < 2 THEN s
    ELSE IF SubSeq(s, 1, 1) = "_" /\ SubSeq(s, 2, 2) = "_"
    THEN CollapseUnderscores(SubSeq(s, 2, Len(s)))
    ELSE SubSeq(s, 1, 1) \o CollapseUnderscores(SubSeq(s, 2, Len(s)))

RECURSIVE RStripUnderscores(_)
\* safe_name.rstrip('_')
RStripUnderscores(s) ==
    IF s # "" /\ SubSeq(s, Len(s), Len(s)) = "_"
    THEN RStripUnderscores(SubSeq(s, 1, Len(s) - 1))
    ELSE s

\* the longest name _make_sql_safe returns: [:128]
MaxNameLength == 128

\* _make_sql_safe(name), name a str
MakeSqlSafe(name) ==
    IF name = "" THEN "_empty"
    ELSE LET translated == Translate(name)
             prefixed == IF SubSeq(translated, 1, 1) \in Digits
                         THEN "_" \o translated ELSE translated
             collapsed == CollapseUnderscores(prefixed)
         IN RStripUnderscores(SubSeq(collapsed, 1, Min(MaxNameLength, Len(collapsed))))

\* the width of the text column _get_sql_type gives: NVARCHAR(255)
DefaultWidth == 255

\* a column of a table: its SQL type, the width of NVARCHAR(width), whether it
\* is NVARCHAR(max), NOT NULL, and whether the database fills it in itself
\* (IDENTITY or DEFAULT)
IntColumn == [type |-> "INT", width |-> 0, unbounded |-> FALSE, not_null |-> FALSE, filled |-> FALSE]
TextColumn(width) ==
    [type |-> "NVARCHAR", width |-> width, unbounded |-> FALSE, not_null |-> FALSE, filled |-> FALSE]
TextColumnMax ==
    [type |-> "NVARCHAR", width |-> 0, unbounded |-> TRUE, not_null |-> FALSE, filled |-> FALSE]
\* [id] INT IDENTITY(1,1) PRIMARY KEY
IdentityColumn == [type |-> "INT", width |-> 0, unbounded |-> FALSE, not_null |-> TRUE, filled |-> TRUE]
\* [Inserted] DATETIME DEFAULT GETDATE(), [IsCurrent] INT DEFAULT 1
DefaultedColumn(type) ==
    [type |-> type, width |-> 0, unbounded |-> FALSE, not_null |-> FALSE, filled |-> TRUE]
\* [x_id] INT NOT NULL
ReferenceColumn == [type |-> "INT", width |-> 0, unbounded |-> FALSE, not_null |-> TRUE, filled |-> FALSE]
\* dummy BIT NULL
BitColumn == [type |-> "BIT", width |-> 0, unbounded |-> FALSE, not_null |-> FALSE, filled |-> FALSE]

\* FLOAT, DATETIME
FloatColumn == [type |-> "FLOAT", width |-> 0, unbounded |-> FALSE, not_null |-> FALSE, filled |-> FALSE]
DateTimeColumn ==
    [type |-> "DATETIME", width |-> 0, unbounded |-> FALSE, not_null |-> FALSE, filled |-> FALSE]

\* _get_sql_type(value): the tests in the order of the code; bool is an int to
\* isinstance, so the test for bool is never reached
GetSqlType(value) ==
    IF value.t \in {"int", "bool"} THEN IntColumn
    ELSE IF value.t = "float" THEN FloatColumn
    ELSE IF value.t = "bool" THEN BitColumn
    ELSE IF value.t = "datetime" THEN DateTimeColumn
    ELSE TextColumn(DefaultWidth)

RECURSIVE EscapeQuotes(_)
\* str(value).replace("'", "''"), the two halves of the text one after the other
EscapeQuotes(s) ==
    IF s = "" THEN ""
    ELSE IF Len(s) = 1 THEN (IF s = "'" THEN "''" ELSE s)
    ELSE EscapeQuotes(SubSeq(s, 1, Len(s) \div 2)) \o EscapeQuotes(SubSeq(s, Len(s) \div 2 + 1, Len(s)))

\* the text _insert_entity_data writes for a value: NULL, str(value) of a number
\* (a bool is an int to isinstance), or the quoted str
SqlLiteral(value) ==
    IF value.t = "null" THEN "NULL"
    ELSE IF value.t = "int" THEN ToString(value.n)
    ELSE IF value.t = "bool" THEN (IF value.n = 1 THEN "True" ELSE "False")
    ELSE IF value.t = "float" THEN value.s
    ELSE "'" \o EscapeQuotes(value.s) \o "'"

(***************************************************************************)
(* The statements the writer hands to cursor.execute.  A statement is a    *)
(* record of one shape: op, the table, the path that made it ("entity" or  *)
(* "junction"), the column definitions of a CREATE or ALTER, the values of *)
(* an INSERT by column, the tables a junction's columns reference, and     *)
(* whether the rendered text is no valid statement.  A row of a finalized  *)
(* table has its keys in no order the model keeps: optimize_tables builds  *)
(* every row by iterating a set of column names.                           *)
(***************************************************************************)
Statement(op, table, path, columns, values, references, malformed) ==
    [op |-> op, table |-> table, path |-> path, columns |-> columns, values |-> values,
     references |-> references, malformed |-> malformed]

\* IF NOT EXISTS (SELECT * FROM sys.schemas ...) EXEC('CREATE SCHEMA ...')
SchemaGuard == Statement("schema", "", "", EmptyDict, EmptyDict, EmptyDict, FALSE)

\* the keys of the rows of a table
TableKeys(table) == UNION { DOMAIN table[i] : i \in 1..Len(table) }

\* the value of the first row that has the key col
FirstValue(table, col) ==
    table[CHOOSE i \in 1..Len(table) :
             /\ col \in DOMAIN table[i]
             /\ \A j \in 1..(i - 1) : col \notin DOMAIN table[j]][col]

\* the name of the column _create_entity_table_if_not_exists makes for a key
EntityColumnName(col) == IF col = "id" THEN "id" ELSE MakeSqlSafe(col)

\* the columns a CREATE TABLE adds by itself
OwnColumns(is_root_table) ==
    IF is_root_table
    THEN ("IsCurrent" :> DefaultedColumn("INT")) @@ ("Inserted" :> DefaultedColumn("DATETIME"))
    ELSE ("Inserted" :> DefaultedColumn("DATETIME"))

\* the statement of _create_entity_table_if_not_exists: one column per distinct
\* key, typed by the first value seen; the text is malformed when no key gives a
\* column or two columns get one name
CreateEntityTable(table_name, table, is_root_table) ==
    LET keys == TableKeys(table)
        names == { EntityColumnName(col) : col \in keys }
        own == OwnColumns(is_root_table)
        key_columns ==
            [name \in names |->
                IF name = "id" /\ "id" \in keys THEN IdentityColumn
                ELSE GetSqlType(FirstValue(table, CHOOSE col \in keys : EntityColumnName(col) = name))]
    IN Statement("create", MakeSqlSafe(table_name), "entity", key_columns @@ own, EmptyDict,
                 EmptyDict,
                 \/ keys = {}
                 \/ Cardinality(names) < Cardinality(keys)
                 \/ names \cap DOMAIN own # {})

\* col[:-3]
DropLast3(col) == SubSeq(col, 1, Len(col) - 3)

\* the entities _create_relationship_table_if_not_exists finds in the rows
ReferencedEntityNames(table) == { DropLast3(col) : col \in { c \in TableKeys(table) : EndsWith(c, "_id") } }

\* the statement of _create_relationship_table_if_not_exists: one INT NOT NULL
\* column and one foreign key per referenced entity
CreateRelationshipTable(table_name, table) ==
    LET entity_names == ReferencedEntityNames(table)
        names == { MakeSqlSafe(e \o "_id") : e \in entity_names }
    IN Statement("create", MakeSqlSafe(table_name), "junction",
                 [name \in names |-> ReferenceColumn] @@ OwnColumns(FALSE), EmptyDict,
                 [name \in names |->
                     MakeSqlSafe(CHOOSE e \in entity_names : MakeSqlSafe(e \o "_id") = name)],
                 \/ entity_names = {}
                 \/ Cardinality(names) < Cardinality(entity_names)
                 \/ "Inserted" \in names)

\* the INSERT of _insert_entity_data for a row: every key but id, by its safe
\* name, with the literal of its value; DEFAULT VALUES (script) or the column
\* dummy (live) for a row that has no key but id
InsertEntityRow(table_name, row, collect_script) ==
    LET columns == DOMAIN row \ {"id"}
        names == { MakeSqlSafe(col) : col \in columns }
    IN IF columns = {}
       THEN Statement("insert", MakeSqlSafe(table_name), "entity", EmptyDict,
                      IF collect_script THEN EmptyDict ELSE ("dummy" :> "NULL"),
                      EmptyDict, FALSE)
       ELSE Statement("insert", MakeSqlSafe(table_name), "entity", EmptyDict,
                      [name \in names |->
                          SqlLiteral(row[CHOOSE col \in columns : MakeSqlSafe(col) = name])],
                      EmptyDict, Cardinality(names) < Cardinality(columns))

\* the columns of a junction row _insert_relationship_data can translate
TranslatedColumns(row, maps) ==
    { col \in DOMAIN row :
        /\ EndsWith(col, "_id")
        /\ DropLast3(col) \in DOMAIN maps
        /\ row[col].t \in {"int", "bool"}
        /\ row[col].n \in DOMAIN maps[DropLast3(col)] }

\* the INSERT of _insert_relationship_data for a row: the columns are named as
\* the row names them
InsertRelationshipRow(table_name, row, maps) ==
    Statement("insert", MakeSqlSafe(table_name), "junction", EmptyDict,
              [col \in TranslatedColumns(row, maps) |-> ToString(maps[DropLast3(col)][row[col].n])],
              EmptyDict, FALSE)

(***************************************************************************)
(* The run: normalize_json_to_nf, then the order create_tables_and_insert_ *)
(* data computes from its result.                                          *)
(***************************************************************************)
\* json_data is a generated document or a scenario
DocumentChoice ==
    \/ json_data \in ScenarioDocuments
    \/ \E n \in 1..MaxNodes :
         \/ n = 1 /\ json_data \in Scalars \ {PyStr("")}   \* a str is parsed first
         \/ \E len \in 0..Min(MaxItems, n - 1) : \E items \in SeqsOfSize(n - 1, len) :
                json_data = PyList(items)
         \/ \E len \in 0..Min(MaxFields, n - 1) :
                \E ks \in KeySeqs(len), vals \in SeqsOfSize(n - 1, len) :
                    json_data = PyDict([i \in 1..len |-> Field(ks[i], vals[i])])

\* SqlServerTableCreator.__init__, and a database with no tables
WriterIdle ==
    /\ statements = <<>>
    /\ writer_id_maps = EmptyDict
    /\ pending = <<>>
    /\ insert = EmptyDict
    /\ store = EmptyDict
    /\ committed = EmptyDict

NothingYet ==
    /\ entities = EmptyDict
    /\ relationships = EmptyDict
    /\ rel_order = <<>>
    /\ entity_hierarchy = <<>>
    /\ next_temp_id = EmptyDict
    /\ analysed = EmptyDict
    /\ leaf_entities = {}
    /\ processed_entities = {}
    /\ remaining_entities = {}
    /\ tables = EmptyDict
    /\ table_order = <<>>
    /\ id_maps = EmptyDict
    /\ processing_order = <<>>
    /\ input_tables = EmptyDict

Init ==
    /\ impl = "core"
    /\ DocumentChoice
    /\ pc = "start"
    /\ NothingYet
    /\ mode = "none"
    /\ WriterIdle

InitLegacy ==
    /\ impl = "legacy"
    /\ DocumentChoice
    /\ pc = "start"
    /\ NothingYet
    /\ mode = "none"
    /\ WriterIdle

\* structure_analyzer.analyze(json_data); TableBuilder(entities, relationships)
Analyze ==
    /\ pc = "start"
    /\ LET st == AnalyzeJson(json_data, RootName)
       IN /\ entities' = st.entities
          /\ analysed' = st.entities
          /\ relationships' = st.relationships
          /\ rel_order' = st.rel_order
          /\ entity_hierarchy' = st.entity_hierarchy
          /\ next_temp_id' = st.next_temp_id
    /\ pc' = "build"
    /\ UNCHANGED <<impl, json_data, leaf_entities, processed_entities, remaining_entities,
                   tables, table_order, id_maps, processing_order, input_tables>>
    /\ UNCHANGED persist_vars

\* build_tables: leaf_entities = self._find_leaf_entities()
FindLeaves ==
    /\ pc = "build"
    /\ leaf_entities' = FindLeafEntities(entities, relationships)
    /\ pc' = "leaves"
    /\ UNCHANGED <<impl, json_data, entities, relationships, rel_order, entity_hierarchy,
                   next_temp_id, analysed, processed_entities, remaining_entities,
                   tables, table_order, id_maps, processing_order, input_tables>>
    /\ UNCHANGED persist_vars

\* ProcessEntityEffect with ids that count on from the tables built before
ProcessEntityEffectCountsOn(entity_name) ==
    LET r == ProcessEntity(entities[entity_name])
        base == Len(table_order)
    IN /\ entities' = [entities EXCEPT ![entity_name] = r.records]
       /\ tables' = DictSet(tables, entity_name,
                            [i \in 1..Len(r.table) |-> [r.table[i] EXCEPT !["id"] = PyInt(i + base)]])
       /\ table_order' = IF entity_name \in DOMAIN tables THEN table_order
                          ELSE Append(table_order, entity_name)
       /\ id_maps' = DictSet(id_maps, entity_name, r.id_map)

\* what _process_entity(entity_name) assigns
ProcessEntityEffect(entity_name) ==
    LET r == ProcessEntity(entities[entity_name])
    IN /\ entities' = [entities EXCEPT ![entity_name] = r.records]
       /\ tables' = DictSet(tables, entity_name, r.table)
       /\ table_order' = IF entity_name \in DOMAIN tables THEN table_order
                          ELSE Append(table_order, entity_name)
       /\ id_maps' = DictSet(id_maps, entity_name, r.id_map)

\* build_tables: one turn of `while leaf_entities`, with the entity the set pops
ProcessLeaf ==
    /\ pc = "leaves"
    /\ \E entity_name \in leaf_entities :
          /\ IF entity_name \notin processed_entities
             THEN ProcessEntityEffect(entity_name)
             ELSE UNCHANGED <<entities, tables, table_order, id_maps>>
          /\ processed_entities' = processed_entities \cup {entity_name}
          /\ leaf_entities' = UpdateLeafEntities(entities, relationships,
                                                 leaf_entities \ {entity_name},
                                                 processed_entities \cup {entity_name})
    /\ UNCHANGED <<impl, json_data, pc, relationships, rel_order, entity_hierarchy,
                   next_temp_id, analysed, remaining_entities, processing_order, input_tables>>
    /\ UNCHANGED persist_vars

\* build_tables: the frontier is empty; remaining_entities = set(entities) - processed
LeavesDone ==
    /\ pc = "leaves"
    /\ leaf_entities = {}
    /\ remaining_entities' = DOMAIN entities \ processed_entities
    /\ pc' = "remaining"
    /\ UNCHANGED <<impl, json_data, entities, relationships, rel_order, entity_hierarchy,
                   next_temp_id, analysed, leaf_entities, processed_entities,
                   tables, table_order, id_maps, processing_order, input_tables>>
    /\ UNCHANGED persist_vars

\* build_tables: one turn of `for entity_name in remaining_entities`
ProcessRemaining ==
    /\ pc = "remaining"
    /\ \E entity_name \in remaining_entities :
          /\ ProcessEntityEffect(entity_name)
          /\ remaining_entities' = remaining_entities \ {entity_name}
    /\ UNCHANGED <<impl, json_data, pc, relationships, rel_order, entity_hierarchy,
                   next_temp_id, analysed, leaf_entities, processed_entities,
                   processing_order, input_tables>>
    /\ UNCHANGED persist_vars

\* build_tables: self._process_relationships(); a failed lookup raises KeyError
ProcessRelationships ==
    /\ pc = "remaining"
    /\ remaining_entities = {}
    /\ LET r == ProcessRelationshipsFrom(1, rel_order, relationships, id_maps, tables, table_order)
       IN /\ tables' = r.tables
          /\ table_order' = r.table_order
          /\ pc' = IF r.error THEN "KeyError" ELSE "built"
    /\ UNCHANGED <<impl, json_data, entities, relationships, rel_order, entity_hierarchy,
                   next_temp_id, analysed, leaf_entities, processed_entities,
                   remaining_entities, id_maps, processing_order, input_tables>>
    /\ UNCHANGED persist_vars

\* optimized_tables = TableBuilder.optimize_tables(tables)
Optimize ==
    /\ pc = "built"
    /\ input_tables' = tables
    /\ tables' = OptimizeTables(tables, impl)
    /\ table_order' = FilterSeq(table_order, { x \in DOMAIN tables : tables[x] # <<>> })
    /\ pc' = "optimized"
    /\ UNCHANGED <<impl, json_data, entities, relationships, rel_order, entity_hierarchy,
                   next_temp_id, analysed, leaf_entities, processed_entities,
                   remaining_entities, id_maps, processing_order>>
    /\ UNCHANGED persist_vars

\* processing_order = self._determine_processing_order(tables.keys(), entity_hierarchy)
DetermineOrder ==
    /\ pc = "optimized"
    /\ processing_order' = DetermineProcessingOrder(table_order, entity_hierarchy)
    /\ pc' = "ordered"
    /\ UNCHANGED <<impl, json_data, entities, relationships, rel_order, entity_hierarchy,
                   next_temp_id, analysed, leaf_entities, processed_entities,
                   remaining_entities, tables, table_order, id_maps, input_tables>>
    /\ UNCHANGED persist_vars

(***************************************************************************)
(* optimize_tables on its own, on any tables of at most MaxRows rows, by   *)
(* either copy of the code, applied once and then again to its result.     *)
(***************************************************************************)
Columns == {"id", "a", "b"}
Cells == {PyNone, PyInt(1)}
Rows == UNION { [cols -> Cells] : cols \in SUBSET Columns }

InitOptimize ==
    /\ impl \in {"core", "legacy"}
    /\ json_data = PyNone
    /\ pc = "built"
    /\ entities = EmptyDict
    /\ relationships = EmptyDict
    /\ rel_order = <<>>
    /\ entity_hierarchy = <<>>
    /\ next_temp_id = EmptyDict
    /\ analysed = EmptyDict
    /\ leaf_entities = {}
    /\ processed_entities = {}
    /\ remaining_entities = {}
    /\ id_maps = EmptyDict
    /\ processing_order = <<>>
    /\ input_tables = EmptyDict
    /\ mode = "none"
    /\ WriterIdle
    /\ \E n \in 0..MaxRows : \E t \in [1..n -> Rows] : \E u \in {<<>>, <<[id |-> PyInt(1)]>>} :
          \/ tables = [name \in {"t"} |-> t] /\ table_order = <<"t">>
          \/ tables = [name \in {"t", "u"} |-> IF name = "t" THEN t ELSE u]
             /\ table_order = <<"t", "u">>

\* optimize_tables(optimize_tables(tables)): the second call
OptimizeAgain ==
    /\ pc = "optimized"
    /\ input_tables' = tables
    /\ tables' = OptimizeTables(tables, impl)
    /\ table_order' = FilterSeq(table_order, { x \in DOMAIN tables : tables[x] # <<>> })
    /\ pc' = "optimized again"
    /\ UNCHANGED <<impl, json_data, entities, relationships, rel_order, entity_hierarchy,
                   next_temp_id, analysed, leaf_entities, processed_entities,
                   remaining_entities, id_maps, processing_order>>
    /\ UNCHANGED persist_vars

NextOptimize ==
    \/ Optimize
    \/ OptimizeAgain

SpecOptimize == InitOptimize /\ [][NextOptimize]_vars

Next ==
    \/ Analyze
    \/ FindLeaves
    \/ ProcessLeaf
    \/ LeavesDone
    \/ ProcessRemaining
    \/ ProcessRelationships
    \/ Optimize
    \/ DetermineOrder

Spec == Init /\ [][Next]_vars

SpecLegacy == InitLegacy /\ [][Next]_vars

(***************************************************************************)
(* The database behind the cursor, as far as the statements above reach    *)
(* it: a table has columns, rows and the last IDENTITY value; an INSERT    *)
(* fails on an unknown column, on text that is no number for an INT        *)
(* column, on text longer than its NVARCHAR column, on a NOT NULL column   *)
(* left without a value; a CREATE TABLE fails when a table it references   *)
(* is missing.  Key uniqueness and the rows referenced are not checked.    *)
(***************************************************************************)
Failure(kind, detail) == [kind |-> kind, detail |-> detail]

RECURSIVE StrToInt(_)
\* int(s) of a str of digits
StrToInt(s) ==
    IF s = "" THEN 0
    ELSE 10 * StrToInt(SubSeq(s, 1, Len(s) - 1))
         + (CHOOSE d \in 0..9 : ToString(d) = SubSeq(s, Len(s), Len(s)))

IsDigits(s) == s # "" /\ \A i \in 1..Len(s) : SubSeq(s, i, i) \in Digits

\* long_val.startswith("'") and long_val.endswith("'")
IsQuoted(literal) ==
    Len(literal) >= 2 /\ SubSeq(literal, 1, 1) = "'" /\ SubSeq(literal, Len(literal), Len(literal)) = "'"

\* the length of the text between the quotes of a literal: every '' of the
\* literal stands for one '
UnescapedLength(inner) ==
    Len(inner) - Cardinality({ i \in 1..Len(inner) : SubSeq(inner, i, i) = "'" }) \div 2

\* the characters of the model that stand for the characters outside the Basic
\* Multilingual Plane (an emoji): one character to Python's len, a surrogate pair
\* and so two of the byte-pairs NVARCHAR(n) counts to the database
Supplementary == {"~"}

\* the byte-pairs of the text a quoted literal stands for
TextLength(literal) ==
    LET inner == SubSeq(literal, 2, Len(literal) - 1)
    IN UnescapedLength(inner)
       + Cardinality({ i \in 1..Len(inner) : SubSeq(inner, i, i) \in Supplementary })

\* a quoted literal that converts to a number
IsNumericText(literal) == IsDigits(SubSeq(literal, 2, Len(literal) - 1))

\* the value of an INSERT does not fit the column
ConversionFails(column, literal) ==
    column.type \in {"INT", "BIT"} /\ IsQuoted(literal) /\ ~IsNumericText(literal)

TruncationFails(column, literal) ==
    /\ column.type = "NVARCHAR"
    /\ ~column.unbounded
    /\ IsQuoted(literal)
    /\ TextLength(literal) > column.width

\* the ways the database can fail a statement; none: it executes
Failures(db, stmt) ==
    IF stmt.malformed THEN {Failure("other", "syntax")}
    ELSE IF stmt.op = "schema" THEN {}
    ELSE IF stmt.op = "create"
    THEN IF stmt.table \in DOMAIN db THEN {}
         ELSE { Failure("other", "no referenced table") :
                  c \in { x \in DOMAIN stmt.references : stmt.references[x] \notin DOMAIN db } }
    ELSE IF stmt.table \notin DOMAIN db THEN {Failure("other", "no table")}
    ELSE LET columns == db[stmt.table].columns
         IN IF stmt.op = "insert"
            THEN LET unknown == DOMAIN stmt.values \ DOMAIN columns
                     named == { stmt.values[x] : x \in DOMAIN stmt.values } \cap {"True", "False"}
                 IN IF unknown # {} THEN { Failure("invalid column", c) : c \in unknown }
                    ELSE IF named # {}   \* a bare True or False is read as a column name
                    THEN { Failure("invalid column", c) : c \in named }
                    ELSE { Failure("conversion", stmt.values[c]) :
                             c \in { x \in DOMAIN stmt.values :
                                       ConversionFails(columns[x], stmt.values[x]) } }
                         \cup { Failure("truncated", "") :
                                  c \in { x \in DOMAIN stmt.values :
                                            TruncationFails(columns[x], stmt.values[x]) } }
                         \cup { Failure("other", "null") :
                                  c \in { x \in DOMAIN columns :
                                            /\ columns[x].not_null
                                            /\ ~columns[x].filled
                                            /\ (x \notin DOMAIN stmt.values
                                                \/ stmt.values[x] = "NULL") } }
            ELSE IF stmt.op = "add column"
            THEN { Failure("other", "column exists") : c \in DOMAIN stmt.columns \cap DOMAIN columns }
            ELSE \* "alter column"
                 { Failure("other", "no column") : c \in DOMAIN stmt.columns \ DOMAIN columns }
                 \cup { Failure("truncated", "") :
                          c \in { x \in DOMAIN stmt.columns \cap DOMAIN columns :
                                    \E i \in 1..Len(db[stmt.table].rows) :
                                        /\ x \in DOMAIN db[stmt.table].rows[i]
                                        /\ TruncationFails(stmt.columns[x], db[stmt.table].rows[i][x]) } }

\* the database after a statement that executes; an INSERT gives the row the
\* next IDENTITY value
Executed(db, stmt) ==
    IF stmt.op = "create"
    THEN IF stmt.table \in DOMAIN db THEN db
         ELSE DictSet(db, stmt.table, [columns |-> stmt.columns, rows |-> <<>>, identity |-> 0])
    ELSE IF stmt.op = "insert"
    THEN [db EXCEPT ![stmt.table].identity = @ + 1,
                    ![stmt.table].rows =
                        Append(@, IF "id" \in DOMAIN db[stmt.table].columns
                                  THEN ("id" :> ToString(db[stmt.table].identity + 1)) @@ stmt.values
                                  ELSE stmt.values)]
    ELSE IF stmt.op \in {"add column", "alter column"}
    THEN [db EXCEPT ![stmt.table].columns = stmt.columns @@ @]
    ELSE db

RECURSIVE Replay(_, _, _)
\* the database after the statements from position i on, each one executed or,
\* when it fails, left out
Replay(stmts, i, db) ==
    IF i > Len(stmts) THEN db
    ELSE Replay(stmts, i + 1, IF Failures(db, stmts[i]) = {} THEN Executed(db, stmts[i]) ELSE db)

(***************************************************************************)
(* create_tables_and_insert_data with collect_script=True: the statements  *)
(* go to a MockCursor, which appends them to sql_script.  The writer is    *)
(* called as main.py calls it, with the root name of the normalization.    *)
(***************************************************************************)
\* int(row['id']) raises: KeyError without the key, TypeError for None,
\* ValueError for a str that is no number
OriginalIdRaises(row) ==
    \/ "id" \notin DOMAIN row
    \/ row["id"].t = "null"
    \/ row["id"].t = "str" /\ ~IsDigits(row["id"].s)

\* int(row['id'])
OriginalId(row) == IF row["id"].t = "str" THEN StrToInt(row["id"].s) ELSE row["id"].n

\* self.id_maps[table_name] after `if table_name not in self.id_maps`
IdMapOf(maps, table_name) == IF table_name \in DOMAIN maps THEN maps[table_name] ELSE EmptyDict

RECURSIVE ScriptEntityRows(_, _, _, _, _)
\* _insert_entity_data in script mode from row i on, next_id being i: the
\* statements, the id map of the table and whether int(row['id']) raised
ScriptEntityRows(i, table_name, table, stmts, id_map) ==
    IF i > Len(table) THEN [statements |-> stmts, id_map |-> id_map, raised |-> FALSE]
    ELSE LET stmts1 == Append(stmts, InsertEntityRow(table_name, table[i], TRUE))
         IN IF OriginalIdRaises(table[i])
            THEN [statements |-> stmts1, id_map |-> id_map, raised |-> TRUE]
            ELSE ScriptEntityRows(i + 1, table_name, table, stmts1,
                                  DictSet(id_map, OriginalId(table[i]), i))

RECURSIVE ScriptRelationshipRows(_, _, _, _, _)
\* _insert_relationship_data in script mode from row i on: the statements
ScriptRelationshipRows(i, table_name, table, maps, stmts) ==
    IF i > Len(table) THEN stmts
    ELSE ScriptRelationshipRows(i + 1, table_name, table, maps,
             IF TranslatedColumns(table[i], maps) # {}
             THEN Append(stmts, InsertRelationshipRow(table_name, table[i], maps))
             ELSE stmts)

\* the tables.keys() that end in _rel, in order
RelTables == FilterSeq(table_order, { name \in DOMAIN tables : EndsWith(name, "_rel") })

\* the start of create_tables_and_insert_data: the schema guard; the loop over
\* processing_order is next
StartScript ==
    /\ mode = "script"
    /\ pc = "ordered"
    /\ statements' = <<SchemaGuard>>
    /\ pending' = processing_order
    /\ pc' = "entities"
    /\ UNCHANGED <<impl, json_data, entities, relationships, rel_order, entity_hierarchy,
                   next_temp_id, analysed, leaf_entities, processed_entities,
                   remaining_entities, tables, table_order, id_maps, processing_order,
                   input_tables, mode, writer_id_maps, insert, store, committed>>

\* one turn of `for table_name in processing_order` in script mode
ScriptEntityTable ==
    /\ mode = "script"
    /\ pc = "entities"
    /\ pending # <<>>
    /\ LET table_name == Head(pending)
           r == ScriptEntityRows(1, table_name, tables[table_name],
                    Append(statements,
                           CreateEntityTable(table_name, tables[table_name], table_name = RootName)),
                    IdMapOf(writer_id_maps, table_name))
       IN IF table_name \in DOMAIN tables /\ ~EndsWith(table_name, "_rel")
          THEN /\ statements' = r.statements
               /\ writer_id_maps' = DictSet(writer_id_maps, table_name, r.id_map)
               /\ pc' = IF r.raised THEN "raised" ELSE pc
          ELSE UNCHANGED <<statements, writer_id_maps, pc>>
    /\ pending' = Tail(pending)
    /\ UNCHANGED <<impl, json_data, entities, relationships, rel_order, entity_hierarchy,
                   next_temp_id, analysed, leaf_entities, processed_entities,
                   remaining_entities, tables, table_order, id_maps, processing_order,
                   input_tables, mode, insert, store, committed>>

\* the loop over processing_order ends; `for table_name in tables.keys()` is next
EntitiesDone ==
    /\ mode \in {"script", "live"}
    /\ pc = "entities"
    /\ pending = <<>>
    /\ pending' = RelTables
    /\ pc' = "junctions"
    /\ UNCHANGED <<impl, json_data, entities, relationships, rel_order, entity_hierarchy,
                   next_temp_id, analysed, leaf_entities, processed_entities,
                   remaining_entities, tables, table_order, id_maps, processing_order,
                   input_tables, mode, statements, writer_id_maps, insert, store, committed>>

\* one turn of `for table_name in tables.keys()` on a name that ends in _rel,
\* in script mode
ScriptRelationshipTable ==
    /\ mode = "script"
    /\ pc = "junctions"
    /\ pending # <<>>
    /\ LET table_name == Head(pending)
       IN statements' =
              ScriptRelationshipRows(1, table_name, tables[table_name], writer_id_maps,
                  Append(statements, CreateRelationshipTable(table_name, tables[table_name])))
    /\ pending' = Tail(pending)
    /\ UNCHANGED <<impl, json_data, pc, entities, relationships, rel_order, entity_hierarchy,
                   next_temp_id, analysed, leaf_entities, processed_entities,
                   remaining_entities, tables, table_order, id_maps, processing_order,
                   input_tables, mode, writer_id_maps, insert, store, committed>>

\* return "\n".join(self.sql_script)
ReturnScript ==
    /\ mode = "script"
    /\ pc = "junctions"
    /\ pending = <<>>
    /\ pc' = "returned"
    /\ UNCHANGED <<impl, json_data, entities, relationships, rel_order, entity_hierarchy,
                   next_temp_id, analysed, leaf_entities, processed_entities,
                   remaining_entities, tables, table_order, id_maps, processing_order,
                   input_tables, mode, statements, writer_id_maps, pending, insert, store,
                   committed>>

\* the rendered script is replayed against an empty database
ReplayScript ==
    /\ mode = "script"
    /\ pc = "returned"
    /\ store' = Replay(statements, 1, EmptyDict)
    /\ committed' = Replay(statements, 1, EmptyDict)
    /\ pc' = "replayed"
    /\ UNCHANGED <<impl, json_data, entities, relationships, rel_order, entity_hierarchy,
                   next_temp_id, analysed, leaf_entities, processed_entities,
                   remaining_entities, tables, table_order, id_maps, processing_order,
                   input_tables, mode, statements, writer_id_maps, pending, insert>>

\* documents whose names and values matter to the writer
\* {"a_rel": [1]}: an array whose name ends in _rel
RelNamedArray == PyDict(<<Field("a_rel", PyList(<<PyInt(1)>>))>>)
\* [{"a": 1}, {"a": "x y"}]: a column with a number, then a text
NumberThenText ==
    PyList(<<PyDict(<<Field("a", PyInt(1))>>), PyDict(<<Field("a", PyStr("x y"))>>)>>)
\* {"a b": [{"c.d": "it's"}]}: names and a value that need escaping
UnsafeNames ==
    PyDict(<<Field("a b", PyList(<<PyDict(<<Field("c.d", PyStr("it's"))>>)>>))>>)
\* {"id": 5, "a": {"b": 1}}: a field named id on a parent record
IdField == PyDict(<<Field("id", PyInt(5)), Field("a", PyDict(<<Field("b", PyInt(1))>>))>>)

WriterDocuments == {RelNamedArray, NumberThenText, UnsafeNames, IdField}

InitScript ==
    /\ impl = "core"
    /\ (DocumentChoice \/ json_data \in WriterDocuments)
    /\ pc = "start"
    /\ NothingYet
    /\ mode = "script"
    /\ WriterIdle

NextScript ==
    \/ Next
    \/ StartScript
    \/ ScriptEntityTable
    \/ EntitiesDone
    \/ ScriptRelationshipTable
    \/ ReturnScript
    \/ ReplayScript

SpecScript == InitScript /\ [][NextScript]_vars

(***************************************************************************)
(* create_tables_and_insert_data with collect_script=False: the statements *)
(* go to a pyodbc cursor.  `with pyodbc.connect(...) as conn` commits when *)
(* the block ends and rolls back when an exception leaves it.  statements  *)
(* keeps every statement sent to the cursor, executed or failed.  The      *)
(* tables of the documents followed here all keep their id column, which   *)
(* OUTPUT INSERTED.ID reads.                                               *)
(***************************************************************************)
\* the variables normalize_json_to_nf and _determine_processing_order leave behind
pipeline_vars ==
    <<impl, json_data, entities, relationships, rel_order, entity_hierarchy, next_temp_id,
      analysed, leaf_entities, processed_entities, remaining_entities, tables, table_order,
      id_maps, processing_order, input_tables, mode>>

\* max_attempts = 10
max_attempts == 10

\* the executions of one row's INSERT the model follows
MaxExecutions == 11

\* the failures of the connection itself (timeout, deadlock, lost link) in one run
MaxFaults == 1

NoFailure == Failure("none", "")

\* the failures the handlers of _insert_entity_data answer with an ALTER TABLE
Retriable == {"invalid column", "truncated", "conversion"}

\* the locals of the row loops: the table and the row, where the row stands in
\* INSERTING / SCHEMA_ADJUSTING / DONE / FAILED, attempt_count and
\* resized_columns, the exception caught last; and, to state the claims, how
\* often the INSERT of the row was executed, how many ALTER TABLE the row
\* caused, which columns were too narrow and which kinds of fault the database
\* found at its first execution, and how many connection failures the run and
\* the row have seen
RowInsert(path, table_name, i, faults) ==
    [path |-> path, table |-> table_name, row |-> i, phase |-> "INSERTING",
     attempt_count |-> 0, resized_columns |-> {}, failure |-> NoFailure,
     executions |-> 0, alters |-> 0, too_narrow |-> {}, first |-> {}, faults |-> faults,
     row_faults |-> 0]

\* between two tables
NoInsert(faults) == [RowInsert("", "", 0, faults) EXCEPT !.phase = "IDLE"]

\* the escalation of the column width
Ladder(alter_column_length) ==
    IF alter_column_length < 255 THEN TextColumn(255)
    ELSE IF alter_column_length < 500 THEN TextColumn(500)
    ELSE IF alter_column_length < 1000 THEN TextColumn(1000)
    ELSE IF alter_column_length < 2000 THEN TextColumn(2000)
    ELSE TextColumnMax

\* ALTER TABLE ... ADD [column] ...
AddColumn(table, column, definition) ==
    Statement("add column", table, "entity", (column :> definition), EmptyDict, EmptyDict, FALSE)

\* ALTER TABLE ... ALTER COLUMN [column] NVARCHAR(...) NULL
AlterColumn(table, column, definition) ==
    Statement("alter column", table, "entity", (column :> definition), EmptyDict, EmptyDict, FALSE)

\* the text has a blank
HasSpace(s) == \E i \in 1..Len(s) : SubSeq(s, i, i) = " "

\* what cursor.execute can answer: nothing (the statement executes) when the
\* database finds no fault, one of the faults it finds otherwise, or a failure
\* of the connection
Outcomes(db, stmt, faults) ==
    (IF Failures(db, stmt) = {} THEN {NoFailure} ELSE Failures(db, stmt))
    \cup (IF faults < MaxFaults THEN {Failure("other", "connection")} ELSE {})

\* the columns of the INSERT whose text the database finds too long
TooNarrow(db, stmt) ==
    IF stmt.table \notin DOMAIN db THEN {}
    ELSE { c \in DOMAIN stmt.values \cap DOMAIN db[stmt.table].columns :
             TruncationFails(db[stmt.table].columns[c], stmt.values[c]) }

\* the quoted literals of an INSERT, by column
QuotedColumns(stmt) == { c \in DOMAIN stmt.values : IsQuoted(stmt.values[c]) }

\* val_length = len(long_val) - 2
ValLength(literal) == Len(literal) - 2

\* TruncationChoices that takes any quoted column not yet resized
TruncationChoicesAnyColumn(stmt, resized_columns) ==
    { c \in QuotedColumns(stmt) \ resized_columns : ValLength(stmt.values[c]) > 0 }

\* the handler of 'String or binary data would be truncated': the columns the
\* first loop can end with (the longest literal not yet resized; among equals
\* the first in the order of the row, which is any)
TruncationChoices(stmt, resized_columns) ==
    LET open == { c \in QuotedColumns(stmt) \ resized_columns : ValLength(stmt.values[c]) > 0 }
    IN { c \in open : \A d \in open : ValLength(stmt.values[d]) <= ValLength(stmt.values[c]) }

\* the handler of 'Conversion failed when converting': the columns
\* values.index(errored_value) can give (the first column that holds the
\* literal, in the order of the row, which is any); none when the literal has a
\* blank, because errored_value is then only its last word
ConversionChoices(stmt, literal) ==
    IF HasSpace(literal) THEN {} ELSE { c \in DOMAIN stmt.values : stmt.values[c] = literal }

\* what an except block of the retry loop does with the exception caught: the
\* ALTER TABLE statements it can send and the column it marks as resized; no
\* statement: the block raises
Adjustments(stmt, failure, resized_columns) ==
    IF failure.kind = "invalid column"
    THEN { [alter |-> AddColumn(stmt.table, failure.detail, TextColumn(255)), resized |-> {}] }
    ELSE IF failure.kind = "truncated"
    THEN { [alter |-> AlterColumn(stmt.table, c, Ladder(ValLength(stmt.values[c]))),
            resized |-> {c}] : c \in TruncationChoices(stmt, resized_columns) }
    ELSE IF failure.kind = "conversion"
    THEN { [alter |-> AlterColumn(stmt.table, c, Ladder(Len(failure.detail))),
            resized |-> {c}] : c \in ConversionChoices(stmt, failure.detail) }
    ELSE {}

\* the tables a database can hold before the run: none, or a root table made
\* earlier with narrower columns, or one with no column of the document
NarrowRoot ==
    (RootName :> [columns |-> ("id" :> IdentityColumn) @@ ("A" :> TextColumn(1))
                              @@ ("B" :> TextColumn(255)) @@ OwnColumns(TRUE),
                  rows |-> <<>>, identity |-> 0])

BareRoot ==
    (RootName :> [columns |-> ("id" :> IdentityColumn) @@ OwnColumns(TRUE),
                  rows |-> <<>>, identity |-> 0])

InitialDatabases == {EmptyDict, NarrowRoot, BareRoot}

\* the exception caught counts as a failure of the connection
Counted(ins, outcome) ==
    IF outcome = Failure("other", "connection")
    THEN [ins EXCEPT !.faults = @ + 1, !.row_faults = @ + 1, !.failure = outcome]
    ELSE [ins EXCEPT !.failure = outcome]

\* an exception leaves the with block: the connection rolls back
Raised(ins, failure) ==
    [pc |-> "raised", store |-> committed, maps |-> writer_id_maps,
     insert |-> [Counted(ins, failure) EXCEPT !.phase = "FAILED"]]

\* the row the loop of _insert_entity_data or _insert_relationship_data is at
CurrentRow == tables[insert.table][insert.row]

\* after the INSERT of an entity row has executed: db_id = int(cursor.fetchone()[0]),
\* original_id = int(row['id']), self.id_maps[table_name][original_id] = db_id
Inserted(ins, db) ==
    IF OriginalIdRaises(CurrentRow)
    THEN Raised(ins, Failure("python", "int(row['id'])"))
    ELSE [pc |-> pc, store |-> db,
          maps |-> DictSet(writer_id_maps, insert.table,
                           DictSet(IdMapOf(writer_id_maps, insert.table), OriginalId(CurrentRow),
                                   db[MakeSqlSafe(insert.table)].identity)),
          insert |-> [ins EXCEPT !.phase = "DONE", !.failure = NoFailure]]

\* the step of the writer ends as r says
Becomes(r) ==
    /\ pc' = r.pc
    /\ store' = r.store
    /\ writer_id_maps' = r.maps
    /\ insert' = r.insert

\* pyodbc.connect, the schema guard, _determine_processing_order
StartLive ==
    /\ mode = "live"
    /\ pc = "ordered"
    /\ \E db \in InitialDatabases : store' = db /\ committed' = db
    /\ statements' = <<SchemaGuard>>
    /\ pending' = processing_order
    /\ insert' = NoInsert(0)
    /\ pc' = "entities"
    /\ UNCHANGED <<pipeline_vars, writer_id_maps>>

\* one turn of `for table_name in processing_order`, up to the first row:
\* _create_entity_table_if_not_exists and the head of _insert_entity_data
LiveCreateEntityTable ==
    /\ mode = "live"
    /\ pc = "entities"
    /\ pending # <<>>
    /\ insert.phase = "IDLE"
    /\ LET table_name == Head(pending)
           create == CreateEntityTable(table_name, tables[table_name], table_name = RootName)
           ins == RowInsert("entity", table_name, 1, insert.faults)
       IN IF table_name \in DOMAIN tables /\ ~EndsWith(table_name, "_rel")
          THEN /\ statements' = Append(statements, create)
               /\ \E outcome \in Outcomes(store, create, insert.faults) :
                     Becomes(IF outcome = NoFailure
                             THEN [pc |-> pc, store |-> Executed(store, create),
                                   maps |-> DictSet(writer_id_maps, table_name,
                                                    IdMapOf(writer_id_maps, table_name)),
                                   insert |-> ins]
                             ELSE Raised([ins EXCEPT !.row = 0], outcome))
               /\ UNCHANGED <<committed, pending>>
          ELSE /\ pending' = Tail(pending)
               /\ UNCHANGED <<pc, statements, store, committed, insert, writer_id_maps>>
    /\ UNCHANGED pipeline_vars

\* cursor.execute(insert_sql) for the row of an entity table: one turn of the
\* while loop up to the except blocks, or, for a row with no key but id, the
\* column dummy and the single try
LiveInsert ==
    /\ mode = "live"
    /\ pc = "entities"
    /\ insert.phase = "INSERTING"
    /\ insert.executions < MaxExecutions
    /\ LET stmt == InsertEntityRow(insert.table, CurrentRow, FALSE)
           dummy == DOMAIN CurrentRow \ {"id"} = {}
           add == AddColumn(stmt.table, "dummy", BitColumn)
           lacks == /\ dummy
                    /\ stmt.table \in DOMAIN store
                    /\ "dummy" \notin DOMAIN store[stmt.table].columns
           db == IF lacks THEN Executed(store, add) ELSE store
           ins == [insert EXCEPT !.attempt_count = @ + 1,
                                 !.executions = @ + 1,
                                 !.too_narrow = IF insert.executions = 0
                                                THEN TooNarrow(db, stmt) ELSE @,
                                 !.first = IF insert.executions = 0
                                           THEN { f.kind : f \in Failures(db, stmt) } ELSE @]
       IN IF ~dummy /\ insert.attempt_count >= max_attempts
          THEN /\ Becomes(Raised(insert, Failure("python", "Failed to insert data")))
               /\ UNCHANGED statements
          ELSE /\ statements' = Append(IF lacks THEN Append(statements, add) ELSE statements, stmt)
               /\ \E outcome \in Outcomes(db, stmt, insert.faults) :
                     Becomes(IF outcome = NoFailure THEN Inserted(ins, Executed(db, stmt))
                             ELSE IF ~dummy /\ outcome.kind \in Retriable
                             THEN [pc |-> pc, store |-> db, maps |-> writer_id_maps,
                                   insert |-> [Counted(ins, outcome) EXCEPT !.phase = "SCHEMA_ADJUSTING"]]
                             ELSE Raised(ins, outcome))
    /\ UNCHANGED <<pipeline_vars, committed, pending>>

\* the except block that caught a failure it knows: one ALTER TABLE and back to
\* the head of the while loop with attempt_count -= 1, or an exception of its own
LiveAdjust ==
    /\ mode = "live"
    /\ pc = "entities"
    /\ insert.phase = "SCHEMA_ADJUSTING"
    /\ LET stmt == InsertEntityRow(insert.table, CurrentRow, FALSE)
           adjustments == Adjustments(stmt, insert.failure, insert.resized_columns)
       IN IF adjustments = {}
          THEN /\ Becomes(Raised(insert, Failure("python", "except block")))
               /\ UNCHANGED statements
          ELSE \E a \in adjustments :
                  /\ statements' = Append(statements, a.alter)
                  /\ \E outcome \in Outcomes(store, a.alter, insert.faults) :
                        Becomes(IF outcome = NoFailure
                                THEN [pc |-> pc, store |-> Executed(store, a.alter),
                                      maps |-> writer_id_maps,
                                      insert |-> [insert EXCEPT
                                                    !.phase = "INSERTING",
                                                    !.attempt_count = @ - 1,
                                                    !.alters = @ + 1,
                                                    !.resized_columns = @ \cup a.resized]]
                                ELSE Raised(insert, outcome))
    /\ UNCHANGED <<pipeline_vars, committed, pending>>

\* the row is in: the next row of the table, or, after the last, conn.commit()
\* and the next table
LiveNextRow ==
    /\ mode = "live"
    /\ pc \in {"entities", "junctions"}
    /\ insert.phase = "DONE"
    /\ IF insert.row < Len(tables[insert.table])
       THEN /\ insert' = RowInsert(insert.path, insert.table, insert.row + 1, insert.faults)
            /\ UNCHANGED <<committed, pending>>
       ELSE /\ insert' = NoInsert(insert.faults)
            /\ committed' = store
            /\ pending' = Tail(pending)
    /\ UNCHANGED <<pipeline_vars, pc, statements, store, writer_id_maps>>

\* one turn of `for table_name in tables.keys()` on a name that ends in _rel,
\* up to the first row: _create_relationship_table_if_not_exists
LiveCreateRelationshipTable ==
    /\ mode = "live"
    /\ pc = "junctions"
    /\ pending # <<>>
    /\ insert.phase = "IDLE"
    /\ LET table_name == Head(pending)
           create == CreateRelationshipTable(table_name, tables[table_name])
           ins == RowInsert("junction", table_name, 1, insert.faults)
       IN /\ statements' = Append(statements, create)
          /\ \E outcome \in Outcomes(store, create, insert.faults) :
                Becomes(IF outcome = NoFailure
                        THEN [pc |-> pc, store |-> Executed(store, create),
                              maps |-> writer_id_maps, insert |-> ins]
                        ELSE Raised([ins EXCEPT !.row = 0], outcome))
    /\ UNCHANGED <<pipeline_vars, committed, pending>>

\* one row of _insert_relationship_data: the INSERT, when a column is left to
\* insert, in a try whose except block prints the exception and goes on
LiveInsertRelationshipRow ==
    /\ mode = "live"
    /\ pc = "junctions"
    /\ insert.phase = "INSERTING"
    /\ LET stmt == InsertRelationshipRow(insert.table, CurrentRow, writer_id_maps)
       IN IF DOMAIN stmt.values = {}
          THEN /\ insert' = [insert EXCEPT !.phase = "DONE"]
               /\ UNCHANGED <<statements, store>>
          ELSE /\ statements' = Append(statements, stmt)
               /\ \E outcome \in Outcomes(store, stmt, insert.faults) :
                     /\ store' = IF outcome = NoFailure THEN Executed(store, stmt) ELSE store
                     /\ insert' = [Counted(insert, outcome) EXCEPT !.phase = "DONE",
                                                                  !.executions = @ + 1]
    /\ UNCHANGED <<pipeline_vars, pc, committed, pending, writer_id_maps>>

\* the with block ends (the connection commits); return self.id_maps
LiveReturn ==
    /\ mode = "live"
    /\ pc = "junctions"
    /\ pending = <<>>
    /\ insert.phase = "IDLE"
    /\ committed' = store
    /\ pc' = "returned"
    /\ UNCHANGED <<pipeline_vars, statements, writer_id_maps, pending, insert, store>>

RECURSIVE Repeat(_, _)
\* s * n
Repeat(s, n) ==
    IF n = 0 THEN ""
    ELSE IF n % 2 = 0 THEN Repeat(s \o s, n \div 2)
    ELSE s \o Repeat(s, n - 1)

\* the documents written in live mode
\* [{"A": "x", "B": 1}, {"A": "x", "B": "x"}]: the text of one column is also the
\* text that is no number for another
SameText ==
    PyList(<<PyDict(<<Field("A", PyStr("x")), Field("B", PyInt(1))>>),
             PyDict(<<Field("A", PyStr("x")), Field("B", PyStr("x"))>>)>>)
\* [{"A": "bb", "B": "ccc"}]: two texts
TwoTexts == PyList(<<PyDict(<<Field("A", PyStr("bb")), Field("B", PyStr("ccc"))>>)>>)
\* [{"A": "ccc", "B": "bb"}]: two texts, the longer one first
LongerFirst == PyList(<<PyDict(<<Field("A", PyStr("ccc")), Field("B", PyStr("bb"))>>)>>)
\* [{"A": "bb"}]: one text
OneText == PyList(<<PyDict(<<Field("A", PyStr("bb"))>>)>>)
\* [{"A": "xx...x"}]: a text too long for NVARCHAR(255)
LongText == PyList(<<PyDict(<<Field("A", PyStr(Repeat("x", DefaultWidth + 1)))>>)>>)
\* {"A": [1, 2]}: a junction table of two rows
TwoItems == PyDict(<<Field("A", PyList(<<PyInt(1), PyInt(2)>>))>>)
\* [{"A": "~~...~"}]: 128 characters that take 256 byte-pairs
SupplementaryText ==
    PyList(<<PyDict(<<Field("A", PyStr(Repeat("~", (DefaultWidth + 1) \div 2)))>>)>>)
\* [{"B": "xx...x"}, {"A": "bb", "B": "ccc"}]: a long text, then a shorter one in
\* the same column
WideThenShort ==
    PyList(<<PyDict(<<Field("B", PyStr(Repeat("x", DefaultWidth + 1)))>>),
             PyDict(<<Field("A", PyStr("bb")), Field("B", PyStr("ccc"))>>)>>)
\* [{"a": 1}, {"a": "x"}]: a number, then a word in the same column
NumberThenWord ==
    PyList(<<PyDict(<<Field("a", PyInt(1))>>), PyDict(<<Field("a", PyStr("x"))>>)>>)

LiveDocuments ==
    {SameText, TwoTexts, LongerFirst, OneText, LongText, TwoItems, NumberThenText, UnsafeNames, RelNamedArray,
     ScenarioA, SupplementaryText, WideThenShort, NumberThenWord}

InitLive ==
    /\ impl = "core"
    /\ json_data \in LiveDocuments
    /\ pc = "start"
    /\ NothingYet
    /\ mode = "live"
    /\ WriterIdle

NextLive ==
    \/ Next
    \/ StartLive
    \/ LiveCreateEntityTable
    \/ LiveInsert
    \/ LiveAdjust
    \/ LiveNextRow
    \/ EntitiesDone
    \/ LiveCreateRelationshipTable
    \/ LiveInsertRelationshipRow
    \/ LiveReturn

SpecLive == InitLive /\ [][NextLive]_vars

(***************************************************************************)
(* _determine_processing_order on its own, on any table names and any      *)
(* hierarchy map over at most MaxTables entity names, a junction table and *)
(* a name that is no table.                                                *)
(***************************************************************************)
\* the entity names, in one order, and a name no table has
OrderEntityNames == [i \in 1..MaxTables |-> "t" \o ToString(i)]
OrderNames == OrderEntityNames \o <<"x">>
OrderTableNames == SeqToSet(OrderEntityNames) \cup {"t1_t2_rel"}

\* the dict child -> parent that f is on the children in keys
HierarchyOf(keys, f) ==
    LET children == SelectSeq(OrderNames, LAMBDA name : name \in keys)
    IN [i \in 1..Len(children) |-> [child |-> children[i], parent |-> f[children[i]]]]

InitOrder ==
    /\ impl = "core"
    /\ json_data = PyNone
    /\ pc = "optimized"
    /\ entities = EmptyDict
    /\ relationships = EmptyDict
    /\ rel_order = <<>>
    /\ next_temp_id = EmptyDict
    /\ analysed = EmptyDict
    /\ leaf_entities = {}
    /\ processed_entities = {}
    /\ remaining_entities = {}
    /\ id_maps = EmptyDict
    /\ processing_order = <<>>
    /\ input_tables = EmptyDict
    /\ mode = "none"
    /\ WriterIdle
    /\ \E n \in 0..MaxTables : \E names \in [1..n -> OrderTableNames] :
          /\ \A i, j \in 1..n : i # j => names[i] # names[j]
          /\ table_order = names
          /\ tables = [name \in SeqToSet(names) |-> <<[id |-> PyInt(1)]>>]
    /\ \E keys \in SUBSET SeqToSet(OrderNames) : \E f \in [keys -> SeqToSet(OrderNames)] :
          entity_hierarchy = HierarchyOf(keys, f)

NextOrder == DetermineOrder

SpecOrder == InitOrder /\ [][NextOrder]_vars

(***************************************************************************)
(* _create_entity_table_if_not_exists on its own, on any table of at most  *)
(* MaxRows rows whose values are of the types _get_sql_type tells apart,   *)
(* with a cursor that collects the statement.                              *)
(***************************************************************************)
TypedValues ==
    {PyInt(7), PyFloat("1.5"), PyBool(TRUE), PyDateTime("2020-01-01 00:00:00"), PyStr("x"), PyNone}

\* the rows a table can have at position i: the id the builder gives, the key a
\* with a value of any type or not at all, the key b with a number, null or not
\* at all
TypedRows(i) ==
    { ("id" :> PyInt(i)) @@ a @@ b :
        a \in {EmptyDict} \cup { ("a" :> v) : v \in TypedValues },
        b \in {EmptyDict} \cup { ("b" :> v) : v \in {PyInt(7), PyNone} } }

InitCreate ==
    /\ impl = "core"
    /\ json_data = PyNone
    /\ pc = "create"
    /\ entities = EmptyDict
    /\ relationships = EmptyDict
    /\ rel_order = <<>>
    /\ entity_hierarchy = <<>>
    /\ next_temp_id = EmptyDict
    /\ analysed = EmptyDict
    /\ leaf_entities = {}
    /\ processed_entities = {}
    /\ remaining_entities = {}
    /\ id_maps = EmptyDict
    /\ processing_order = <<RootName>>
    /\ input_tables = EmptyDict
    /\ mode = "script"
    /\ WriterIdle
    /\ table_order = <<RootName>>
    /\ \E n \in 1..MaxRows : \E t \in [1..n -> UNION { TypedRows(i) : i \in 1..MaxRows }] :
          /\ \A i \in 1..n : t[i] \in TypedRows(i)
          /\ tables = (RootName :> t)

\* self._create_entity_table_if_not_exists(cursor, table_name, tables[table_name], ...)
CreateEntityTableIfNotExists ==
    /\ pc = "create"
    /\ statements' = Append(statements, CreateEntityTable(RootName, tables[RootName], TRUE))
    /\ pc' = "created"
    /\ UNCHANGED <<pipeline_vars, writer_id_maps, pending, insert, store, committed>>

NextCreate == CreateEntityTableIfNotExists

SpecCreate == InitCreate /\ [][NextCreate]_vars

(***************************************************************************)
(* What a document holds, read off the document itself.                    *)
(***************************************************************************)
Normalized == pc \in {"optimized", "ordered"}
Built == pc \in {"built", "optimized", "ordered"}

\* the rows of a table, none when the table does not exist
RowsOf(name) == IF name \in DOMAIN tables THEN tables[name] ELSE <<>>

RECURSIVE SumOver(_, _, _)
\* the sum of count[i] from position i on
SumOver(count, i, n) == IF i > n THEN 0 ELSE count[i] + SumOver(count, i + 1, n)

RECURSIVE NestedObjectCount(_, _, _, _)
\* how often the records in fields, a record of entity, hold the nested object
\* field f of a record of entity P, nested records included
NestedObjectCount(fields, entity, P, f) ==
    SumOver([i \in 1..Len(fields) |->
               LET k == fields[i].k
                   v == fields[i].v
               IN IF v.t = "dict"
                  THEN (IF entity = P /\ k = f THEN 1 ELSE 0)
                       + NestedObjectCount(v.kids, entity \o "_" \o k, P, f)
                  ELSE IF v.t = "list"
                  THEN SumOver([j \in 1..Len(v.kids) |->
                                  IF v.kids[j].v.t = "dict"
                                  THEN NestedObjectCount(v.kids[j].v.kids, k, P, f)
                                  ELSE 0], 1, Len(v.kids))
                  ELSE 0], 1, Len(fields))

RECURSIVE NestedObjectFields(_, _)
\* the (P, f) of every nested object field in the records in fields
NestedObjectFields(fields, entity) ==
    UNION { LET k == fields[i].k
                v == fields[i].v
            IN IF v.t = "dict"
               THEN {[P |-> entity, f |-> k]} \cup NestedObjectFields(v.kids, entity \o "_" \o k)
               ELSE IF v.t = "list"
               THEN UNION { IF v.kids[j].v.t = "dict"
                            THEN NestedObjectFields(v.kids[j].v.kids, k)
                            ELSE {} : j \in 1..Len(v.kids) }
               ELSE {} : i \in 1..Len(fields) }

\* the records of the root entity that the document holds, as one field list each
RootRecords(data) ==
    IF data.t = "dict" THEN <<data.kids>>
    ELSE IF data.t = "list"
    THEN LET dicts == { i \in 1..Len(data.kids) : data.kids[i].v.t = "dict" }
         IN [n \in 1..Cardinality(dicts) |->
               data.kids[CHOOSE i \in dicts : Cardinality({ j \in dicts : j <= i }) = n].v.kids]
    ELSE <<>>

DocNestedObjectFields(data) ==
    UNION { NestedObjectFields(RootRecords(data)[i], RootName) : i \in 1..Len(RootRecords(data)) }

DocNestedObjectCount(data, P, f) ==
    SumOver([i \in 1..Len(RootRecords(data)) |-> NestedObjectCount(RootRecords(data)[i], RootName, P, f)],
            1, Len(RootRecords(data)))

RECURSIVE ArrayFieldNames(_)
\* the names of the array fields anywhere in value
ArrayFieldNames(value) ==
    UNION { (IF value.t = "dict" /\ value.kids[i].v.t = "list" THEN {value.kids[i].k} ELSE {})
            \cup ArrayFieldNames(value.kids[i].v) : i \in 1..Len(value.kids) }

RECURSIVE ArrayItemCount(_, _)
\* the items of all array fields named f anywhere in value
ArrayItemCount(value, f) ==
    SumOver([i \in 1..Len(value.kids) |->
               (IF value.t = "dict" /\ value.kids[i].v.t = "list" /\ value.kids[i].k = f
                THEN Len(value.kids[i].v.kids) ELSE 0)
               + ArrayItemCount(value.kids[i].v, f)], 1, Len(value.kids))

(***************************************************************************)
(* The claims.                                                             *)
(***************************************************************************)

\* C1: normalizing {"a": 1, "b": {"c": 2}} under the root name root yields exactly
\* the tables root = [{id:1, a:1}], root_b = [{id:1, c:2}] and
\* root_root_b_rel = [{root_id:1, root_b_id:1}], and the run does not fail.
C1_ScenarioA ==
    json_data = ScenarioA =>
        /\ pc # "KeyError"
        /\ Normalized =>
              tables = ("root" :> <<[id |-> PyInt(1), a |-> PyInt(1)]>>)
                       @@ ("root_b" :> <<[id |-> PyInt(1), c |-> PyInt(2)]>>)
                       @@ ("root_root_b_rel" :> <<[root_id |-> PyInt(1), root_b_id |-> PyInt(1)]>>)

C1_Witness == json_data = ScenarioA /\ pc = "optimized" /\ DOMAIN tables # {}

\* the elements of a root array that analyze turns into a record
RecordedRootItems(data) ==
    { i \in 1..Len(data.kids) : data.kids[i].v.t = "dict" \/ IsPrimitive(data.kids[i].v) }

\* a field of the document produces an entity with the root's name: an array
\* field is named like the root, or a nested object field's P_f is the root's name
RootNameReused ==
    \/ RootName \in ArrayFieldNames(json_data)
    \/ \E pf \in DocNestedObjectFields(json_data) : (pf.P \o "_" \o pf.f) = RootName

\* C2 as stated: an object root gives a root table of exactly one row, an array root
\* a root table of one row per element, whatever the element's type.
C2_RootRowsAnyElement ==
    Normalized =>
        /\ json_data.t = "dict" => Len(RowsOf(RootName)) = 1
        /\ json_data.t = "list" => Len(RowsOf(RootName)) = Len(json_data.kids)

\* C2, amended: when no field of the document produces an entity with the root's
\* name, an object root gives a root table of exactly one row and an array root one
\* row per element that is an object or a scalar; an element that is itself an
\* array gives no row.
C2_RootRows ==
    (Normalized /\ ~RootNameReused) =>
        /\ json_data.t = "dict" => Len(RowsOf(RootName)) = 1
        /\ json_data.t = "list" =>
              Len(RowsOf(RootName)) = Cardinality(RecordedRootItems(json_data))

C2_Witness ==
    /\ Normalized
    /\ ~RootNameReused
    /\ json_data.t = "list"
    /\ Len(json_data.kids) = 2
    /\ Cardinality(RecordedRootItems(json_data)) = 1
    /\ Len(RowsOf(RootName)) = 1

NameIsOwn(pf) ==
    /\ (pf.P \o "_" \o pf.f) \notin ArrayFieldNames(json_data)
    /\ \A other \in DocNestedObjectFields(json_data) :
          (other.P \o "_" \o other.f) = (pf.P \o "_" \o pf.f) => other = pf

LinksOf(f, k) ==
    { rj \in UNION { { <<r, j>> : j \in 1..Len(tables[r]) } :
                      r \in { x \in DOMAIN tables : EndsWith(x, "_" \o f \o "_rel") } } :
        /\ (f \o "_id") \in DOMAIN tables[rj[1]][rj[2]]
        /\ tables[rj[1]][rj[2]][f \o "_id"] = PyInt(k) }

\* C4 in general: for every array field named f the table f exists, has as many rows
\* as the arrays named f have items in the whole document, and each of its rows is
\* linked to a parent by exactly one junction row.
C4_ArrayRows ==
    Normalized =>
        \A f \in ArrayFieldNames(json_data) :
            /\ f \in DOMAIN tables
            /\ Len(tables[f]) = ArrayItemCount(json_data, f)
            /\ \A k \in 1..Len(tables[f]) : Cardinality(LinksOf(f, k)) = 1

\* C4, the instance the claim gives: {"items": [1,2,3]} yields root = [{id:1}], items
\* with the values 1, 2, 3 under the ids 1, 2, 3 and the junction rows
\* {root_id:1, items_id:1..3}.
C4_ScenarioB ==
    (json_data = ScenarioB /\ Normalized) =>
        tables = ("root" :> <<[id |-> PyInt(1)]>>)
                 @@ ("items" :> [k \in 1..3 |-> [id |-> PyInt(k), value |-> PyInt(k)]])
                 @@ ("root_items_rel" :> [k \in 1..3 |-> [root_id |-> PyInt(1), items_id |-> PyInt(k)]])

\* the tables made from entities
EntityTableNames == DOMAIN analysed \cap DOMAIN tables

\* C5 as stated: the k-th row of every entity table has id k.
C5_DenseIds ==
    Built =>
        \A e \in EntityTableNames : \A k \in 1..Len(tables[e]) :
            /\ "id" \in DOMAIN tables[e][k]
            /\ tables[e][k]["id"] = PyInt(k)

\* C6 as stated: every {entity}_id value of every junction row is the id of a row
\* of that entity's table, the row built from the record that holds the temp-id
\* stored in the relationship record.
C6_JunctionReferences ==
    Built =>
        \A r \in DOMAIN relationships \cap DOMAIN tables :
            \A j \in 1..Len(relationships[r]) : \A key \in TempIdKeys(relationships[r][j]) :
                LET e == RSplitFirst(key, "_temp_id")
                    v == tables[r][j][e \o "_id"]
                IN \E i \in 1..Len(RowsOf(e)) :
                      /\ "id" \in DOMAIN tables[e][i]
                      /\ tables[e][i]["id"] = v
                      /\ PyEq(analysed[e][i]["temp_id"], relationships[r][j][key])

\* the columns of rows that are not null in every row
NotAllNull(rows) ==
    { col \in UNION { DOMAIN rows[i] : i \in 1..Len(rows) } :
        \E i \in 1..Len(rows) : col \in DOMAIN rows[i] /\ rows[i][col] # PyNone }

\* C7 as stated: optimize_tables keeps of each table exactly the columns that have a
\* non-null value in some row, and every row of the result has exactly these
\* columns, with its own value or null where it lacked the column.
C7_PrunesAllNullColumns ==
    pc = "optimized" =>
        \A name \in { x \in DOMAIN input_tables : input_tables[x] # <<>> } :
            /\ name \in DOMAIN tables
            /\ Len(tables[name]) = Len(input_tables[name])
            /\ \A i \in 1..Len(tables[name]) :
                  /\ DOMAIN tables[name][i] = NotAllNull(input_tables[name])
                  /\ \A col \in NotAllNull(input_tables[name]) :
                        tables[name][i][col] =
                            IF col \in DOMAIN input_tables[name][i]
                            THEN input_tables[name][i][col] ELSE PyNone

\* C8: optimize_tables applied to its own result returns it unchanged: the same
\* table names in the same order, the same rows, the same columns.
C8_PruningIdempotent ==
    pc = "optimized again" => tables = input_tables /\ DOMAIN tables = SeqToSet(table_order)

C8_Witness ==
    /\ pc = "optimized again"
    /\ "t" \in DOMAIN tables
    /\ Len(tables["t"]) = 2
    /\ DOMAIN tables["t"][1] = {"a"}
    /\ tables["t"][1]["a"] = PyNone

\* the value the claim gives a field value v
Converted(v) ==
    IF v.t = "bool" THEN PyInt(v.n)
    ELSE IF v.t = "null" \/ (v.t = "str" /\ v.s = "") THEN PyNone
    ELSE v

\* C9: in the table of a resolved entity the k-th row holds, for every field of the
\* k-th record but temp_id, the field under its own name with true as 1, false as 0,
\* null and the empty string as null and any other value unchanged; it holds no
\* other column but id.
C9_ValueConversion ==
    pc \in {"leaves", "remaining", "built", "KeyError"} =>
        \A e \in DOMAIN id_maps :
            /\ Len(tables[e]) = Len(analysed[e])
            /\ \A k \in 1..Len(analysed[e]) :
                  /\ DOMAIN tables[e][k] = (DOMAIN analysed[e][k] \ {"temp_id"}) \cup {"id"}
                  /\ \A key \in DOMAIN analysed[e][k] \ {"temp_id"} :
                        tables[e][k][key] = Converted(analysed[e][k][key])

C9_Witness ==
    /\ pc = "built"
    /\ \E e \in DOMAIN id_maps : \E k \in 1..Len(analysed[e]) :
          \E k1, k2 \in DOMAIN analysed[e][k] \ {"temp_id"} :
              /\ analysed[e][k][k1] = PyBool(TRUE)
              /\ analysed[e][k][k2] = PyStr("")
              /\ tables[e][k][k1] = PyInt(1)
              /\ tables[e][k][k2] = PyNone

\* the place of name in seq
IndexOf(seq, name) == CHOOSE i \in 1..Len(seq) : seq[i] = name

\* C10 as stated: in the order _determine_processing_order returns every child
\* table precedes its parent table.
C10_ChildrenFirst ==
    pc = "ordered" =>
        \A i \in 1..Len(entity_hierarchy) :
            LET child == entity_hierarchy[i].child
                parent == entity_hierarchy[i].parent
            IN (child # parent /\ {child, parent} \subseteq SeqToSet(processing_order)) =>
                   IndexOf(processing_order, child) < IndexOf(processing_order, parent)

(***************************************************************************)
(* The claims about the writer: the order of the statements.               *)
(***************************************************************************)
\* the writer has gone through both loops
Written == pc \in {"returned", "replayed"}

\* the positions before j of the statements of one kind for one table
StatementsBefore(j, op, path, table) ==
    { i \in 1..(j - 1) :
        /\ statements[i].op = op
        /\ statements[i].path = path
        /\ statements[i].table = table }

\* before position j, table e was created and got all its rows, through the
\* entity path
EntityTableWrittenBefore(j, e) ==
    /\ StatementsBefore(j, "create", "entity", MakeSqlSafe(e)) # {}
    /\ Cardinality(StatementsBefore(j, "insert", "entity", MakeSqlSafe(e))) = Len(tables[e])

\* C11 as stated: every statement of the junction path comes after the create
\* and every insert of every entity table, made through the entity path, and
\* the tables a junction table references have been created before it.
C11_JunctionsAfterEntities ==
    Written =>
        \A j \in 1..Len(statements) :
            statements[j].path = "junction" =>
                /\ \A e \in EntityTableNames : EntityTableWrittenBefore(j, e)
                /\ \A c \in DOMAIN statements[j].references :
                       \E i \in 1..(j - 1) :
                           /\ statements[i].op = "create"
                           /\ ~statements[i].malformed
                           /\ statements[i].table = statements[j].references[c]

\* statement i is of the given kind for the given table
IsStatement(i, op, path, table) ==
    /\ i \in 1..Len(statements)
    /\ statements[i].op = op
    /\ statements[i].path = path
    /\ statements[i].table = table

\* the create of table name stands at position i and is followed at once by
\* exactly `count` inserts into that table
CreateThenInserts(i, path, name, count) ==
    /\ IsStatement(i, "create", path, MakeSqlSafe(name))
    /\ \A k \in 1..count : IsStatement(i + k, "insert", path, MakeSqlSafe(name))
    /\ ~IsStatement(i + count + 1, "insert", path, MakeSqlSafe(name))

\* the tables made from relationships
JunctionTableNames == DOMAIN tables \ EntityTableNames

\* C18 as stated: the script starts with the schema guard; every entity table
\* has its create immediately followed by exactly one insert per row, the
\* tables in processing order; every junction table has its create followed by
\* its inserts; no insert stands before the create of its table and no
\* junction statement before an entity statement.
C18_ScriptOrder ==
    Written =>
        /\ statements[1] = SchemaGuard
        /\ \A e \in EntityTableNames :
               \E i \in 1..Len(statements) : CreateThenInserts(i, "entity", e, Len(tables[e]))
        /\ \A a \in 1..Len(processing_order) : \A b \in (a + 1)..Len(processing_order) :
               \A i, j \in 1..Len(statements) :
                   (/\ statements[i].table = MakeSqlSafe(processing_order[a])
                    /\ statements[j].table = MakeSqlSafe(processing_order[b])
                    /\ statements[i].path = "entity"
                    /\ statements[j].path = "entity") => i < j
        /\ \A r \in JunctionTableNames :
               \E i \in 1..Len(statements) :
                   /\ IsStatement(i, "create", "junction", MakeSqlSafe(r))
                   /\ \A k \in 1..Len(statements) :
                          IsStatement(k, "insert", "junction", MakeSqlSafe(r)) =>
                              /\ k > i
                              /\ \A x \in i..k : statements[x].table = MakeSqlSafe(r)
        /\ \A k \in 1..Len(statements) :
               statements[k].op = "insert" =>
                   \E i \in 1..(k - 1) :
                       statements[i].op = "create" /\ statements[i].table = statements[k].table
        /\ \A i, j \in 1..Len(statements) :
               (statements[i].path = "junction" /\ statements[j].path = "entity") => j < i

(***************************************************************************)
(* The claims about the writer: identifiers.                               *)
(***************************************************************************)
\* the {entity}_id columns of a junction row
ReferenceColumns(row) == { col \in DOMAIN row : EndsWith(col, "_id") }

\* the insert at position i carries, for every {entity}_id column of the row,
\* the storage identifier id_maps gives for the sequential id in the row
CarriesTranslatedIds(i, row) ==
    /\ DOMAIN statements[i].values = ReferenceColumns(row)
    /\ \A col \in ReferenceColumns(row) :
           /\ DropLast3(col) \in DOMAIN writer_id_maps
           /\ row[col].n \in DOMAIN writer_id_maps[DropLast3(col)]
           /\ statements[i].values[col] = ToString(writer_id_maps[DropLast3(col)][row[col].n])

\* C17 as stated: id_maps[table] maps the sequential id k of the k-th row of
\* every entity table to the identifier of its insert (the k-th insert gets k);
\* every junction row is inserted as one row that carries the translated
\* identifier for each of its {entity}_id columns, none omitted, no row skipped.
C17_IdTranslation ==
    Written =>
        /\ \A e \in EntityTableNames :
               /\ e \in DOMAIN writer_id_maps
               /\ \A k \in 1..Len(tables[e]) :
                      k \in DOMAIN writer_id_maps[e] /\ writer_id_maps[e][k] = k
        /\ \A r \in JunctionTableNames :
               LET inserts == { i \in 1..Len(statements) :
                                  IsStatement(i, "insert", "junction", MakeSqlSafe(r)) }
               IN /\ Cardinality(inserts) = Len(tables[r])
                  /\ \A k \in 1..Len(tables[r]) :
                         \E i \in inserts : CarriesTranslatedIds(i, tables[r][k])

(***************************************************************************)
(* The claims about the writer: the script replayed.                       *)
(***************************************************************************)
\* the columns the writer adds to every table on its own
BookkeepingColumns == {"IsCurrent", "Inserted"}

\* C19 as stated: after the script is replayed against an empty database,
\* every finalized table is stored with as many rows as it has in memory and
\* with its columns (under their SQL-safe names, the IsCurrent and Inserted
\* columns of the writer aside).
C19_RoundTrip ==
    pc = "replayed" =>
        \A name \in DOMAIN tables :
            /\ MakeSqlSafe(name) \in DOMAIN store
            /\ Len(store[MakeSqlSafe(name)].rows) = Len(tables[name])
            /\ DOMAIN store[MakeSqlSafe(name)].columns \ BookkeepingColumns
                   = { MakeSqlSafe(col) : col \in TableKeys(tables[name]) }

(***************************************************************************)
(* The claims about build_tables: the order of resolution.                 *)
(***************************************************************************)
\* child stands on the child side of a relationship whose parent side is parent
IsChildOf(child, parent) ==
    /\ child # parent
    /\ (parent \o "_" \o child \o "_rel") \in DOMAIN relationships

\* the entities build_tables has resolved so far, in the order of resolution
ResolvedOrder == SelectSeq(table_order, LAMBDA name : name \in DOMAIN analysed)

\* C20 as stated: when build_tables resolves an entity, every child of it has
\* been resolved before.
C20_LeavesToRoot ==
    pc \in {"leaves", "remaining", "built"} =>
        \A i \in 1..Len(ResolvedOrder) : \A child \in DOMAIN analysed :
            IsChildOf(child, ResolvedOrder[i]) =>
                \E j \in 1..(i - 1) : ResolvedOrder[j] = child

(***************************************************************************)
(* The claims about the writer: the retry loop of live mode.               *)
(***************************************************************************)
\* the writer has opened the connection
LiveWriting == mode = "live" /\ pc \in {"entities", "junctions", "raised", "returned"}

\* the writer is in the loop over the rows of an entity table
InEntityRow == LiveWriting /\ insert.phase # "IDLE" /\ insert.path = "entity" /\ insert.row > 0

\* C12 as stated: the INSERT of one entity row is executed at most max_attempts
\* times, whatever the database answers.
C12_AttemptsCapped ==
    InEntityRow => insert.executions <= max_attempts

\* the step is one of the row loop of _insert_entity_data, the connection
\* itself not failing in it
EntityRowStep ==
    /\ InEntityRow
    /\ insert' # insert
    /\ insert'.table = insert.table
    /\ insert'.row = insert.row
    /\ insert'.faults = insert.faults

\* C13 as stated: an entity row goes INSERTING -> DONE on success; INSERTING ->
\* SCHEMA_ADJUSTING on an unknown column, a text too long or a failed
\* conversion, and from there back to INSERTING after exactly one ALTER TABLE
\* on the table of the row (an unknown column is added as NVARCHAR(255)), the
\* row and so its INSERT unchanged; INSERTING -> FAILED on any other failure,
\* with no retry and no change of the schema.
C13_RowStateMachine ==
    [][EntityRowStep =>
         /\ insert.phase = "INSERTING" =>
                \/ insert'.phase = "DONE" /\ insert'.failure = NoFailure
                \/ insert'.phase = "SCHEMA_ADJUSTING" /\ insert'.failure.kind \in Retriable
                \/ /\ insert'.phase = "FAILED"
                   /\ insert'.failure.kind \notin Retriable
                   /\ pc' = "raised"
         /\ insert.phase = "SCHEMA_ADJUSTING" =>
                /\ insert'.phase = "INSERTING"
                /\ insert'.alters = insert.alters + 1
                /\ Len(statements') = Len(statements) + 1
                /\ statements'[Len(statements')].op \in {"add column", "alter column"}
                /\ statements'[Len(statements')].table = MakeSqlSafe(insert.table)
                /\ insert.failure.kind = "invalid column" =>
                       statements'[Len(statements')] =
                           AddColumn(MakeSqlSafe(insert.table), insert.failure.detail,
                                     TextColumn(DefaultWidth))
         /\ insert.phase \in {"DONE", "FAILED"} => FALSE
      ]_vars

\* C16 as stated: a failure of the INSERT of a row that no handler answers, in
\* an entity table or in a junction table (whose rows have no handler), ends
\* the run with the exception.
C16_StopsAtFailure ==
    (/\ LiveWriting
     /\ insert.phase # "IDLE"
     /\ insert.row > 0
     /\ \/ insert.failure.kind = "other"
        \/ insert.path = "junction" /\ insert.failure # NoFailure)
    => pc = "raised"

\* the table the writer is at
CurrentTable == IF LiveWriting /\ insert.phase # "IDLE" THEN insert.table ELSE ""

\* the writer has sent the CREATE TABLE of the table
Created(name) ==
    \E i \in 1..Len(statements) :
        statements[i].op = "create" /\ statements[i].table = MakeSqlSafe(name)

\* the rows of a table the database holds for good
CommittedRows(name) ==
    IF MakeSqlSafe(name) \in DOMAIN committed THEN Len(committed[MakeSqlSafe(name)].rows) ELSE 0

\* C15 as stated: of every table the committed database holds all rows or
\* none, and all rows of every table the writer has left behind, also when
\* the run has failed at a later table.
C15_TableCommits ==
    LiveWriting =>
        \A name \in DOMAIN tables :
            /\ CommittedRows(name) \in {0, Len(tables[name])}
            /\ (Created(name) /\ name # CurrentTable) => CommittedRows(name) = Len(tables[name])

\* the INSERT of the row the writer is at
CurrentInsert == InsertEntityRow(insert.table, CurrentRow, FALSE)

\* the loop of an entity row has ended, the connection never failing in it, and
\* the first execution of its INSERT failed because a text was too long for
\* its column, and for nothing else
TruncatedRowEnded ==
    /\ InEntityRow
    /\ insert.phase \in {"DONE", "FAILED"}
    /\ insert.row_faults = 0
    /\ insert.too_narrow # {}
    /\ insert.first = {"truncated"}

\* one ALTER COLUMN, one retry, the row is in
OneEscalation == insert.phase = "DONE" /\ insert.alters = 1 /\ insert.executions = 2

\* C14 as stated: whatever the row and the widths, a row whose insert fails on
\* a text too long is in after exactly one ALTER COLUMN and one retry.
C14_OneEscalationAnyRow == TruncatedRowEnded => OneEscalation

\* C14: a row whose insert fails because the text of one column is too long is
\* in after exactly one ALTER COLUMN and one retry when the literal of that
\* text is longer than every other quoted literal of the row and the text
\* takes no more byte-pairs than the handler counts characters.
C14_OneEscalation ==
    (/\ TruncatedRowEnded
     /\ \E c \in insert.too_narrow :
           /\ insert.too_narrow = {c}
           /\ TextLength(CurrentInsert.values[c]) <= ValLength(CurrentInsert.values[c])
           /\ \A d \in QuotedColumns(CurrentInsert) \ {c} :
                  ValLength(CurrentInsert.values[d]) < ValLength(CurrentInsert.values[c]))
    => OneEscalation

\* a row of two texts, the longer one too long for its column, is in after one
\* escalation
C14_Witness ==
    /\ TruncatedRowEnded
    /\ OneEscalation
    /\ Cardinality(QuotedColumns(CurrentInsert)) = 2

(***************************************************************************)
(* The claims about build_tables: the frontier and the resolution.         *)
(***************************************************************************)
\* the entities that stand on the parent side of a relationship record: the
\* relationship {parent}_{child}_rel holds a record
ParentSideEntities ==
    { parent \in DOMAIN analysed :
        \E child \in DOMAIN analysed :
            /\ (parent \o "_" \o child \o "_rel") \in DOMAIN relationships
            /\ relationships[parent \o "_" \o child \o "_rel"] # <<>> }

\* build_tables holds the result of _find_leaf_entities and has popped nothing
InitialFrontier == pc = "leaves" /\ processed_entities = {}

\* C21 as stated: _find_leaf_entities returns exactly the entities that never
\* stand on the parent side of a relationship record, so an entity that stands
\* on the child side only is in the initial frontier.
C21_LeafFrontier ==
    InitialFrontier => leaf_entities = DOMAIN analysed \ ParentSideEntities

\* C22 as stated: build_tables comes to _process_relationships with an id map
\* for every entity, and no lookup of _process_relationships raises KeyError
\* for a missing endpoint map or a missing temp_id.
C22_RelationshipsResolve ==
    /\ pc \in {"built", "KeyError"} => DOMAIN id_maps = DOMAIN analysed
    /\ pc # "KeyError"

(***************************************************************************)
(* The claims about the writer: the widths the handlers choose.            *)
(***************************************************************************)
\* the characters of the text a quoted literal stands for, as Python counts them
ValueLength(literal) == UnescapedLength(SubSeq(literal, 2, Len(literal) - 1))

\* the width the ladder 255, 500, 1000, 2000, unbounded gives a text of len characters
LadderWidth(len) ==
    IF len >= 2000 THEN TextColumnMax
    ELSE TextColumn(CHOOSE w \in {255, 500, 1000, 2000} :
                        w > len /\ \A v \in {255, 500, 1000, 2000} : v > len => w <= v)

\* the step is the handler of a text too long, the connection not failing in it
TruncationStep ==
    /\ InEntityRow
    /\ insert.phase = "SCHEMA_ADJUSTING"
    /\ insert.failure.kind = "truncated"
    /\ insert' # insert
    /\ insert'.faults = insert.faults

\* C23 as stated: the handler of a text too long alters one string column of
\* the row to the smallest of 255, 500, 1000, 2000 above the length of its
\* value, to NVARCHAR(max) when the length is 2000 or more or when every string
\* column of the row was resized before, and goes back to the INSERT without
\* raising.
C23_LadderWidening ==
    [][TruncationStep =>
         /\ insert'.phase = "INSERTING"
         /\ \E c \in QuotedColumns(CurrentInsert) :
               statements' =
                   Append(statements,
                          AlterColumn(CurrentInsert.table, c,
                                      IF QuotedColumns(CurrentInsert) \subseteq insert.resized_columns
                                      THEN TextColumnMax
                                      ELSE LadderWidth(ValueLength(CurrentInsert.values[c]))))
      ]_vars

\* the step is the handler of a failed conversion, the connection not failing in it
ConversionStep ==
    /\ InEntityRow
    /\ insert.phase = "SCHEMA_ADJUSTING"
    /\ insert.failure.kind = "conversion"
    /\ insert' # insert
    /\ insert'.faults = insert.faults

\* the columns of the row whose value the database could not convert
OffendingColumns ==
    { c \in DOMAIN CurrentInsert.values :
        /\ c \in DOMAIN store[CurrentInsert.table].columns
        /\ CurrentInsert.values[c] = insert.failure.detail
        /\ ConversionFails(store[CurrentInsert.table].columns[c], CurrentInsert.values[c]) }

\* C24 as stated: the handler of a failed conversion alters the column that
\* holds the value the database could not convert to NVARCHAR(max) and goes
\* back to the INSERT.
C24_ConversionToMax ==
    [][ConversionStep =>
         /\ insert'.phase = "INSERTING"
         /\ \E c \in OffendingColumns :
               statements' = Append(statements, AlterColumn(CurrentInsert.table, c, TextColumnMax))
      ]_vars

(***************************************************************************)
(* The claims about the writer: the columns of an entity table.            *)
(***************************************************************************)
\* the type the specification gives a value
DeclaredType(value) ==
    IF value.t = "int" THEN IntColumn
    ELSE IF value.t = "float" THEN FloatColumn
    ELSE IF value.t = "bool" THEN BitColumn
    ELSE IF value.t = "datetime" THEN DateTimeColumn
    ELSE TextColumn(DefaultWidth)

\* C25 as stated: the CREATE TABLE of an entity table declares id as the
\* identity primary key and one column per other key of the rows, typed by its
\* value: INT for an integer, FLOAT for a float, BIT for a boolean, DATETIME
\* for a date/time, NVARCHAR(255) for anything else, null included.
C25_ColumnTypes ==
    pc = "created" =>
        LET create == statements[Len(statements)]
            table == tables[RootName]
        IN /\ create.op = "create"
           /\ DOMAIN create.columns =
                  { EntityColumnName(col) : col \in TableKeys(table) } \cup DOMAIN OwnColumns(TRUE)
           /\ create.columns["id"] = IdentityColumn
           /\ \A col \in TableKeys(table) \ {"id"} :
                  create.columns[EntityColumnName(col)] = DeclaredType(FirstValue(table, col))

(***************************************************************************)
(* The claims about analyze: the records it leaves.                        *)
(***************************************************************************)
\* analyze has returned
Analysed == pc # "start"

\* C26 as stated: every relationship {parent}_{child}_rel holds records of two
\* fields, {parent}_temp_id and {child}_temp_id, of one pair of entities, and
\* every row of a junction table has two columns.
C26_TwoSides ==
    /\ Analysed =>
          \A r \in DOMAIN relationships :
              \E parent \in DOMAIN analysed, child \in DOMAIN analysed :
                  /\ r = parent \o "_" \o child \o "_rel"
                  /\ \A i \in 1..Len(relationships[r]) :
                        /\ DOMAIN relationships[r][i] =
                               {parent \o "_temp_id", child \o "_temp_id"}
                        /\ Cardinality(DOMAIN relationships[r][i]) = 2
    /\ pc = "built" =>
          \A r \in DOMAIN relationships \cap DOMAIN tables :
              \A i \in 1..Len(tables[r]) : Cardinality(DOMAIN tables[r][i]) = 2

\* C27 as stated: the temp_ids of the records of an entity are integers that
\* start at 1 and grow strictly in the order of the records.
C27_TempIdsIncrease ==
    Analysed =>
        \A e \in DOMAIN analysed :
            LET records == analysed[e]
            IN /\ \A i \in 1..Len(records) : records[i]["temp_id"].t = "int"
               /\ records # <<>> => records[1]["temp_id"].n = 1
               /\ \A i, j \in 1..Len(records) :
                     i < j => records[i]["temp_id"].n < records[j]["temp_id"].n

\* the column definition new is no narrower than old, both NVARCHAR
NoNarrower(old, new) ==
    \/ new.unbounded
    \/ ~old.unbounded /\ new.width >= old.width

\* the step sends an ALTER COLUMN from the retry loop of an entity row
AlterColumnStep ==
    /\ InEntityRow
    /\ insert.phase = "SCHEMA_ADJUSTING"
    /\ Len(statements') = Len(statements) + 1
    /\ statements'[Len(statements')].op = "alter column"

\* the ALTER COLUMN the step sends gives no text column less than it has
AlterNoNarrower ==
    LET alter == statements'[Len(statements')]
    IN \A c \in DOMAIN alter.columns \cap DOMAIN store[alter.table].columns :
           store[alter.table].columns[c].type = "NVARCHAR" =>
               NoNarrower(store[alter.table].columns[c], alter.columns[c])

\* no text column of the database is narrower after the step
StoreNoNarrower ==
    \A t \in DOMAIN store \cap DOMAIN store' :
        \A c \in DOMAIN store[t].columns \cap DOMAIN store'[t].columns :
            (store[t].columns[c].type = "NVARCHAR" /\ store'[t].columns[c].type = "NVARCHAR")
                => NoNarrower(store[t].columns[c], store'[t].columns[c])

\* C28 as stated: no ALTER COLUMN of the retry loop gives a text column a width
\* below the width the column has, and so no text column of the database ever
\* gets narrower.
C28_WidthsNeverShrink ==
    [][(AlterColumnStep => AlterNoNarrower)
       /\ ((LiveWriting /\ pc' # "raised") => StoreNoNarrower)]_vars

(***************************************************************************)
(* The claims about build_tables: the result and the order of resolution.  *)
(***************************************************************************)
\* the id maps and the entity tables of the analyzer's output, each entity
\* resolved by itself
MapsOfAnalysed == [e \in DOMAIN analysed |-> ProcessEntity(analysed[e]).id_map]
TablesOfAnalysed == [e \in DOMAIN analysed |-> ProcessEntity(analysed[e]).table]

\* the junction tables on top of them, or the KeyError
BuiltOfAnalysed ==
    ProcessRelationshipsFrom(1, rel_order, relationships, MapsOfAnalysed, TablesOfAnalysed, <<>>)

\* C29: whatever entity the frontier set pops and in whatever order the
\* remaining set is iterated, build_tables ends with the tables and id maps
\* that the analyzer's output alone determines (or raises the KeyError it
\* determines), so two runs on one output end alike.
C29_OrderIndependent ==
    pc \in {"built", "KeyError"} =>
        /\ tables = BuiltOfAnalysed.tables
        /\ id_maps = MapsOfAnalysed
        /\ (pc = "KeyError") = BuiltOfAnalysed.error

\* build_tables has returned junction rows after it resolved the root entity
\* before another entity
C29_Witness ==
    /\ pc = "built"
    /\ Len(ResolvedOrder) >= 2
    /\ ResolvedOrder[1] = RootName
    /\ \E r \in DOMAIN relationships \cap DOMAIN tables : tables[r] # <<>>

(***************************************************************************)
(* The claims about _determine_processing_order.                           *)
(***************************************************************************)
\* the table names that do not end in _rel
EntityTableNameSet == { name \in SeqToSet(table_order) : ~EndsWith(name, "_rel") }

\* the hierarchy has the entry child -> parent
HasEntry(child, parent) ==
    \E i \in 1..Len(entity_hierarchy) :
        entity_hierarchy[i].child = child /\ entity_hierarchy[i].parent = parent

\* C30: _determine_processing_order returns every table name that does not
\* end in _rel exactly once and nothing else, whatever the hierarchy map.
C30_OrderIsPermutation ==
    pc = "ordered" =>
        /\ SeqToSet(processing_order) = EntityTableNameSet
        /\ Len(processing_order) = Cardinality(EntityTableNameSet)

\* the order was computed from a hierarchy of two tables that are each other's
\* parent, a table that is its own parent, and an entry for a name that is no
\* table, with a junction table among the names
C30_Witness ==
    /\ pc = "ordered"
    /\ json_data = PyNone
    /\ HasEntry("t1", "t2") /\ HasEntry("t2", "t1")
    /\ HasEntry("t3", "t3")
    /\ HasEntry("x", "t1")
    /\ EntityTableNameSet = {"t1", "t2"}
    /\ "t1_t2_rel" \in SeqToSet(table_order)
    /\ Len(processing_order) = 2

====
